---- MODULE Spec2Model ----
(***************************************************************************)
(* BizExpense Tracker: the import pipeline (column mapper, category        *)
(* resolver, duplicate detector), the transaction store, the category      *)
(* catalog and the rule engine of the TransactionManager component, and    *)
(* the order matching of the ReconciliationManager component in its two    *)
(* versions (date and amount window; manual linking and AI suggestions).   *)
(*                                                                         *)
(* Strings are sequences of one-character strings.  Numbers are records    *)
(* [nan, v]: v counts thousandths of a currency unit, nan marks the        *)
(* IEEE NaN that parseFloat returns for text holding no number.  An        *)
(* absent (undefined) optional field is None.                              *)
(***************************************************************************)
EXTENDS Integers, Sequences, FiniteSets, TLC

VARIABLES
    transactions,       \* App state: Transaction[] (the store), newest first
    categories,         \* App state: Category[] (the catalog)
    rules,              \* App state: AutoCategoryRule[]
    ruleSuggestion,     \* the suggested rule, or none: <<>> or <<suggestion>>
    allImportRows,      \* allImportRowsRef.current: the uploaded grid
    importCandidates,   \* {clean, duplicates}
    duplicatesToKeep,   \* Set of candidate ids opted back in
    unmappedCategories, \* labels waiting in the category mapper
    categoryMapping,    \* label -> catalog id | "NEW"
    modal,              \* which import modal is showing
    selectedIds,        \* ids ticked in the table, in the order ticked
    pending,            \* asynchronous calls in flight (closure snapshots)
    nextId,             \* source of fresh ids (Date.now() / Math.random())
    last,               \* history: the handler that ran last, with its inputs
    orders,             \* ReconciliationManager: ReconciliationOrder[]
    matchSuggestions,   \* ReconciliationManager: `matches`, the pending suggestions
    linkingOrderId,     \* ReconciliationManager: the order being linked by hand
    allRows,            \* ReconciliationManager: the uploaded order grid
    reconModal,         \* ReconciliationManager: which of its modals are showing
    activeRule,         \* the draft in the rule editor, or none: <<>> or <<draft>>
    boot,               \* App: fetchData is "fetching", or has "loaded" or "failed"
    loadTimer,          \* App: the 500 ms timer that sets isLoadedRef is pending
    isLoadedRef,        \* App: isLoadedRef.current
    watched,            \* App: the collection each auto-save effect last ran with
    saveTimeoutRef,     \* App: per collection, the pending debounce timer's data
    inflight,           \* the sync requests posted and not yet answered, oldest first
    db,                 \* the persistent store: per collection, documents by id
    carried             \* history: per collection, the state last loaded or posted

\* the state of the ReconciliationManager component
reconVars == <<orders, matchSuggestions, linkingOrderId, allRows, reconModal>>

vars == <<transactions, categories, rules, ruleSuggestion, allImportRows,
          importCandidates,
          duplicatesToKeep, unmappedCategories, categoryMapping, modal,
          selectedIds, pending, nextId, last, orders, matchSuggestions,
          linkingOrderId,
          allRows, reconModal, activeRule, boot, loadTimer, isLoadedRef, watched,
          saveTimeoutRef, inflight, db, carried>>

\* the state of App's loading and auto-save, and of the persistent store
syncVars == <<boot, loadTimer, isLoadedRef, watched, saveTimeoutRef, inflight, db,
              carried>>

None == "none"

-----------------------------------------------------------------------------
(* Sequences *)

Range(s) == {s[i] : i \in 1..Len(s)}

RECURSIVE SelectSeqIdx(_, _, _)
\* Array.prototype.filter with the element's index available
SelectSeqIdx(s, Test(_), i) ==
    IF i > Len(s) THEN <<>>
    ELSE (IF Test(s[i]) THEN <<s[i]>> ELSE <<>>) \o SelectSeqIdx(s, Test, i + 1)

Filter(s, Test(_)) == SelectSeqIdx(s, Test, 1)

\* Array.prototype.map
Map(s, F(_)) == [i \in 1..Len(s) |-> F(s[i])]

\* Array.prototype.some
Some(s, Test(_)) == \E i \in 1..Len(s) : Test(s[i])

\* Array.prototype.find, where some element passes the test: the first one
Find(s, Test(_)) ==
    s[CHOOSE i \in 1..Len(s) : Test(s[i]) /\ \A j \in 1..(i - 1) : ~Test(s[j])]

\* the last element passing the test (a forEach that overwrites its result)
FindLast(s, Test(_)) ==
    s[CHOOSE i \in 1..Len(s) : Test(s[i]) /\ \A j \in (i + 1)..Len(s) : ~Test(s[j])]

Min2(a, b) == IF a <= b THEN a ELSE b

-----------------------------------------------------------------------------
(* Numbers: JavaScript doubles, as far as the handlers use them *)

NaN == [nan |-> TRUE, v |-> 0]
Num(v) == [nan |-> FALSE, v |-> v]

\* a < b ; every comparison with NaN is false
NumLt(a, b) == ~a.nan /\ ~b.nan /\ a.v < b.v
NumGt(a, b) == NumLt(b, a)

\* Math.abs(a)
NumAbs(a) == IF a.nan THEN NaN ELSE Num(IF a.v < 0 THEN -a.v ELSE a.v)

\* a - b
NumSub(a, b) == IF a.nan \/ b.nan THEN NaN ELSE Num(a.v - b.v)

\* the literal 0.01 of the amount comparisons, in thousandths
Cent == 10

\* thousandths in one unit
Scale == 1000

-----------------------------------------------------------------------------
(* Strings *)

Digits == <<"0", "1", "2", "3", "4", "5", "6", "7", "8", "9">>
IsDigit(c) == c \in Range(Digits)
DigitVal(c) == (CHOOSE i \in 1..10 : Digits[i] = c) - 1

Upper == <<"A", "B", "C", "D", "E", "F", "G", "H", "I", "J", "K", "L", "M",
           "N", "O", "P", "Q", "R", "S", "T", "U", "V", "W", "X", "Y", "Z">>
Lower == <<"a", "b", "c", "d", "e", "f", "g", "h", "i", "j", "k", "l", "m",
           "n", "o", "p", "q", "r", "s", "t", "u", "v", "w", "x", "y", "z">>

\* String.prototype.toLowerCase, one character
LowerChar(c) ==
    IF c \in Range(Upper) THEN Lower[CHOOSE i \in 1..Len(Upper) : Upper[i] = c] ELSE c

ToLowerCase(s) == [i \in 1..Len(s) |-> LowerChar(s[i])]

StartsWith(s, p) == Len(p) <= Len(s) /\ SubSeq(s, 1, Len(p)) = p
EndsWith(s, p) == Len(p) <= Len(s) /\ SubSeq(s, Len(s) - Len(p) + 1, Len(s)) = p
Includes(s, p) ==
    \E i \in 0..(Len(s) - Len(p)) : SubSeq(s, i + 1, i + Len(p)) = p

IsSpace(c) == c = " "

RECURSIVE TrimLeft(_)
TrimLeft(s) == IF s # <<>> /\ IsSpace(Head(s)) THEN TrimLeft(Tail(s)) ELSE s

RECURSIVE TrimRight(_)
TrimRight(s) ==
    IF s # <<>> /\ IsSpace(s[Len(s)]) THEN TrimRight(SubSeq(s, 1, Len(s) - 1))
    ELSE s

\* String.prototype.trim
Trim(s) == TrimRight(TrimLeft(s))

\* s.replace(/[^0-9.-]/g, '')
StripNonNumeric(s) == Filter(s, LAMBDA c : IsDigit(c) \/ c = "." \/ c = "-")

RECURSIVE DigitRun(_)
\* the longest prefix of s made of digits
DigitRun(s) ==
    IF s # <<>> /\ IsDigit(Head(s)) THEN <<Head(s)>> \o DigitRun(Tail(s))
    ELSE <<>>

RECURSIVE DigitsValue(_, _)
DigitsValue(ds, acc) ==
    IF ds = <<>> THEN acc ELSE DigitsValue(Tail(ds), 10 * acc + DigitVal(Head(ds)))

\* the first three decimals of a run of fraction digits, as thousandths
FractionValue(ds) ==
    LET d(i) == IF i <= Len(ds) THEN DigitVal(ds[i]) ELSE 0
    IN 100 * d(1) + 10 * d(2) + d(3)

\* parseFloat: leading blanks, a sign, digits, a point, digits; the longest
\* prefix that is a number decides, and text with no digit there gives NaN
ParseFloat(str) ==
    LET s0 == TrimLeft(str)
        neg == s0 # <<>> /\ Head(s0) = "-"
        s1 == IF s0 # <<>> /\ Head(s0) \in {"-", "+"} THEN Tail(s0) ELSE s0
        ip == DigitRun(s1)
        s2 == SubSeq(s1, Len(ip) + 1, Len(s1))
        fp == IF s2 # <<>> /\ Head(s2) = "." THEN DigitRun(Tail(s2)) ELSE <<>>
        mag == Scale * DigitsValue(ip, 0) + FractionValue(fp)
    IN IF ip = <<>> /\ fp = <<>> THEN NaN
       ELSE Num(IF neg THEN -mag ELSE mag)

RECURSIVE NatToString(_)
NatToString(n) ==
    IF n < 10 THEN <<Digits[n + 1]>>
    ELSE NatToString(n \div 10) \o <<Digits[(n % 10) + 1]>>

\* the decimals of Number.prototype.toString: no trailing zeros
FractionToString(f) ==
    LET d3 == <<Digits[(f \div 100) + 1], Digits[((f \div 10) % 10) + 1],
                Digits[(f % 10) + 1]>>
    IN IF f % 10 # 0 THEN d3
       ELSE IF f % 100 # 0 THEN SubSeq(d3, 1, 2)
       ELSE SubSeq(d3, 1, 1)

\* Number.prototype.toString
NumberToString(a) ==
    IF a.nan THEN <<"N", "a", "N">>
    ELSE LET m == IF a.v < 0 THEN -a.v ELSE a.v
         IN (IF a.v < 0 THEN <<"-">> ELSE <<>>)
            \o NatToString(m \div Scale)
            \o (IF m % Scale = 0 THEN <<>>
                ELSE <<".">> \o FractionToString(m % Scale))

-----------------------------------------------------------------------------
(* Dates.  A date string is a sequence of parts: <<day>> for "YYYY-MM-DD" *)
(* and <<day, "T", time>> for an ISO timestamp.                            *)

RECURSIVE SplitT0(_)
\* date.split('T')[0]: what precedes the first "T"
SplitT0(d) ==
    IF d = <<>> \/ Head(d) = "T" THEN <<>> ELSE <<Head(d)>> \o SplitT0(Tail(d))

Days == {"2024-01-05", "2024-01-06"}
Times == {"00:00", "09:30"}

Iso(day, time) == <<day, "T", time>>

\* new Date(input) is valid for a cell holding a calendar date; the date-only
\* form is read as midnight UTC
IsDateText(input) == Len(input) = 1 /\ input[1] \in Days

safeParseDate(input, now) ==
    IF input = <<>> THEN now
    ELSE IF IsDateText(input) THEN Iso(input[1], "00:00") ELSE now

-----------------------------------------------------------------------------
(* Catalog *)

INCOME == "INCOME"
EXPENSE == "EXPENSE"
TRANSFER == "TRANSFER"
LOAN == "LOAN"

HasCategory(cats, id) == Some(cats, LAMBDA c : c.id = id)
CategoryById(cats, id) == Find(cats, LAMBDA c : c.id = id)

HasSub(c, id) == Some(c.subcategories, LAMBDA sc : sc.id = id)
IsSubId(cats, id) == Some(cats, LAMBDA c : HasSub(c, id))

\* the category whose subcategories hold the id: the first (a for loop that
\* breaks) or the last (a forEach that overwrites)
CategoryOfSubFirst(cats, id) == Find(cats, LAMBDA c : HasSub(c, id))
CategoryOfSubLast(cats, id) == FindLast(cats, LAMBDA c : HasSub(c, id))

\* Levenshtein distance, by the table the code fills
levenshteinDistance(s, t) ==
    IF Len(s) = 0 THEN Len(t)
    ELSE IF Len(t) = 0 THEN Len(s)
    ELSE LET arr[i \in 0..Len(t), j \in 0..Len(s)] ==
                 IF j = 0 THEN i
                 ELSE IF i = 0 THEN j
                 ELSE Min2(Min2(arr[i - 1, j] + 1, arr[i, j - 1] + 1),
                           arr[i - 1, j - 1] + (IF s[j] = t[i] THEN 0 ELSE 1))
         IN arr[Len(t), Len(s)]

\* const minDist = 3
minDist == 3

RECURSIVE ScanOrder(_)
\* the order in which getClosestMatch visits the catalog: each category,
\* then its subcategories
ScanOrder(cats) ==
    IF cats = <<>> THEN <<>>
    ELSE <<[id |-> Head(cats).id, name |-> Head(cats).name]>>
         \o Head(cats).subcategories \o ScanOrder(Tail(cats))

RECURSIVE ClosestFromLast(_, _, _, _)
\* a variant in which a later entry at the same distance replaces the best
ClosestFromLast(termLower, entries, bestId, lowest) ==
    IF entries = <<>> THEN bestId
    ELSE LET dist == levenshteinDistance(termLower, ToLowerCase(Head(entries).name))
             better == (lowest = -1 \/ dist <= lowest) /\ dist <= minDist
         IN ClosestFromLast(termLower, Tail(entries),
                            IF better THEN Head(entries).id ELSE bestId,
                            IF better THEN dist ELSE lowest)

RECURSIVE ClosestFrom(_, _, _, _)
\* the running (bestId, lowest) of getClosestMatch; lowest = -1 is Infinity
ClosestFrom(termLower, entries, bestId, lowest) ==
    IF entries = <<>> THEN bestId
    ELSE LET dist == levenshteinDistance(termLower, ToLowerCase(Head(entries).name))
             better == (lowest = -1 \/ dist < lowest) /\ dist <= minDist
         IN ClosestFrom(termLower, Tail(entries),
                        IF better THEN Head(entries).id ELSE bestId,
                        IF better THEN dist ELSE lowest)

getClosestMatch(term, cats) ==
    ClosestFrom(ToLowerCase(term), ScanOrder(cats), None, -1)

-----------------------------------------------------------------------------
(* Column mapper: handleProcessImport *)

\* row[col]; an index outside the row, or -1, reads undefined, which every
\* test of the handler treats like the empty string
Cell(row, col) == IF col >= 0 /\ col < Len(row) THEN row[col + 1] ELSE <<>>

\* row[col]?.replace(/[^0-9.-]/g, '') || '0'
AmountText(cell) ==
    LET s == StripNonNumeric(cell) IN IF s = <<>> THEN <<"0">> ELSE s

\* a variant whose single-column branch keeps the sign of the amount
RowAmountSigned(row, m, split) ==
    IF split
    THEN LET debit == ParseFloat(AmountText(Cell(row, m.debit)))
             credit == ParseFloat(AmountText(Cell(row, m.credit)))
         IN IF NumGt(credit, Num(0))
            THEN [amount |-> credit, type |-> INCOME]
            ELSE [amount |-> NumAbs(debit), type |-> EXPENSE]
    ELSE LET amount == ParseFloat(AmountText(Cell(row, m.amount)))
         IN IF NumLt(amount, Num(0))
            THEN [amount |-> amount, type |-> EXPENSE]
            ELSE [amount |-> amount, type |-> INCOME]

\* a variant whose split branch takes any credit other than zero as income
RowAmountNonzeroCredit(row, m, split) ==
    IF split
    THEN LET debit == ParseFloat(AmountText(Cell(row, m.debit)))
             credit == ParseFloat(AmountText(Cell(row, m.credit)))
         IN IF ~credit.nan /\ credit.v # 0
            THEN [amount |-> credit, type |-> INCOME]
            ELSE [amount |-> NumAbs(debit), type |-> EXPENSE]
    ELSE LET amount == ParseFloat(AmountText(Cell(row, m.amount)))
         IN IF NumLt(amount, Num(0))
            THEN [amount |-> NumAbs(amount), type |-> EXPENSE]
            ELSE [amount |-> amount, type |-> INCOME]

\* the amount and type of one row
RowAmount(row, m, split) ==
    IF split
    THEN LET debit == ParseFloat(AmountText(Cell(row, m.debit)))
             credit == ParseFloat(AmountText(Cell(row, m.credit)))
         IN IF NumGt(credit, Num(0))
            THEN [amount |-> credit, type |-> INCOME]
            ELSE [amount |-> NumAbs(debit), type |-> EXPENSE]
    ELSE LET amount == ParseFloat(AmountText(Cell(row, m.amount)))
         IN IF NumLt(amount, Num(0))
            THEN [amount |-> NumAbs(amount), type |-> EXPENSE]
            ELSE [amount |-> amount, type |-> INCOME]

\* the candidate built from the idx-th data row
RowTransaction(row, idx, m, split, accountName, now, stamp) ==
    LET desc == IF Cell(row, m.description) = <<>>
                THEN <<"I", "m", "p">>      \* "Imported Transaction"
                ELSE Cell(row, m.description)
        at == RowAmount(row, m, split)
    IN [id |-> "imp-" \o ToString(stamp) \o "-" \o ToString(idx),
        date |-> safeParseDate(Cell(row, m.date), now),
        description |-> desc,
        amount |-> at.amount,
        type |-> at.type,
        categoryId |-> None,
        subcategoryId |-> None,
        account |-> IF m.account > -1 THEN Cell(row, m.account) ELSE accountName,
        comments |-> IF m.comments > -1 THEN Cell(row, m.comments) ELSE <<>>,
        importedCategory |-> IF m.category > -1 THEN Trim(Cell(row, m.category))
                             ELSE <<>>]

RECURSIVE MapRowsUntilMalformed(_, _, _, _, _, _, _)
\* a variant that gives up at the first row of fewer than 2 cells
MapRowsUntilMalformed(rows, idx, m, split, accountName, now, stamp) ==
    IF rows = <<>> \/ Len(Head(rows)) < 2 THEN <<>>
    ELSE <<RowTransaction(Head(rows), idx, m, split, accountName, now, stamp)>>
         \o MapRowsUntilMalformed(Tail(rows), idx + 1, m, split, accountName, now, stamp)

RECURSIVE MapRows(_, _, _, _, _, _, _)
\* rows.forEach over allImportRows.slice(1); rows of fewer than 2 cells are
\* skipped and keep their index
MapRows(rows, idx, m, split, accountName, now, stamp) ==
    IF rows = <<>> THEN <<>>
    ELSE (IF Len(Head(rows)) < 2 THEN <<>>
          ELSE <<RowTransaction(Head(rows), idx, m, split, accountName, now, stamp)>>)
         \o MapRows(Tail(rows), idx + 1, m, split, accountName, now, stamp)

RECURSIVE Distinct(_, _)
\* Array.from(new Set(...)): first occurrences, in order
Distinct(s, seen) ==
    IF s = <<>> THEN <<>>
    ELSE IF Head(s) \in seen THEN Distinct(Tail(s), seen)
    ELSE <<Head(s)>> \o Distinct(Tail(s), seen \cup {Head(s)})

FoundCategories(txns) ==
    Distinct(Map(Filter(txns, LAMBDA t : t.importedCategory # <<>>),
                 LAMBDA t : t.importedCategory), {})

\* the exact test of handleProcessImport: a category or subcategory of that name
HasExactName(cats, label) ==
    \E i \in 1..Len(cats) :
        \/ ToLowerCase(cats[i].name) = ToLowerCase(label)
        \/ \E j \in 1..Len(cats[i].subcategories) :
               ToLowerCase(cats[i].subcategories[j].name) = ToLowerCase(label)

\* the labels with no exact match, each with its fuzzy suggestion
Unmapped(labels, cats) ==
    Map(Filter(labels, LAMBDA l : ~HasExactName(cats, l)),
        LAMBDA l : [name |-> l, suggestion |-> getClosestMatch(l, cats)])

\* mappingUpdates: the suggestion, or 'NEW'
MappingUpdates(unmapped) ==
    [l \in {unmapped[i].name : i \in 1..Len(unmapped)} |->
        LET u == Find(unmapped, LAMBDA x : x.name = l)
        IN IF u.suggestion # None THEN u.suggestion ELSE "NEW"]

MapGet(f, k) == IF k \in DOMAIN f THEN f[k] ELSE None

-----------------------------------------------------------------------------
(* Duplicate detector: performDuplicateCheck, finalizeImport *)

Uncategorized(t) == [categoryId |-> None, subcategoryId |-> None, type |-> t.type]

\* the category a candidate's imported label resolves to
ResolveImported(t, catMap, cats) ==
    IF t.importedCategory = <<>> THEN Uncategorized(t)
    ELSE LET mapId == MapGet(catMap, t.importedCategory)
             sameName(c) == ToLowerCase(c.name) = ToLowerCase(t.importedCategory)
         IN IF mapId # None /\ mapId # "NEW"
            THEN IF HasCategory(cats, mapId)
                 THEN [categoryId |-> mapId, subcategoryId |-> None,
                       type |-> CategoryById(cats, mapId).type]
                 ELSE IF IsSubId(cats, mapId)
                 THEN [categoryId |-> CategoryOfSubLast(cats, mapId).id,
                       subcategoryId |-> mapId,
                       type |-> CategoryOfSubLast(cats, mapId).type]
                 ELSE Uncategorized(t)
            ELSE IF Some(cats, sameName)
                 THEN [categoryId |-> Find(cats, sameName).id, subcategoryId |-> None,
                       type |-> Find(cats, sameName).type]
                 ELSE Uncategorized(t)

\* a variant that compares the whole timestamp, time of day included
SameSignatureWithTime(exist, t) ==
    /\ exist.date = t.date
    /\ NumLt(NumAbs(NumSub(exist.amount, t.amount)), Num(Cent))
    /\ exist.description = t.description

\* same date part, amounts less than 0.01 apart, same description
SameSignature(exist, t) ==
    /\ SplitT0(exist.date) = SplitT0(t.date)
    /\ NumLt(NumAbs(NumSub(exist.amount, t.amount)), Num(Cent))
    /\ exist.description = t.description

isDup(t, store) == Some(store, LAMBDA exist : SameSignature(exist, t))

updatedT(t, catMap, cats) ==
    LET r == ResolveImported(t, catMap, cats)
    IN [t EXCEPT !.categoryId = r.categoryId, !.subcategoryId = r.subcategoryId,
                 !.type = r.type]

\* the two lists performDuplicateCheck builds; store is the `transactions`
\* of the render whose closure runs
performDuplicateCheck(txns, catMap, updatedCategories, store) ==
    [clean |-> Map(Filter(txns, LAMBDA t : ~isDup(t, store)),
                   LAMBDA t : updatedT(t, catMap, updatedCategories)),
     duplicates |-> Map(Filter(txns, LAMBDA t : isDup(t, store)),
                        LAMBDA t : updatedT(t, catMap, updatedCategories))]

\* a variant that commits every duplicate, opted in or not
finalizeStoreAllDuplicates(cands, keep, prev) ==
    cands.clean \o cands.duplicates \o prev

\* [...importCandidates.clean, ...finalDups, ...prev]
finalizeStore(cands, keep, prev) ==
    cands.clean \o Filter(cands.duplicates, LAMBDA d : d.id \in keep) \o prev

\* handleCategoryMapConfirm: a category for every label left on "create new"
newCats(cats, unmapped, mapping, stamp) ==
    cats \o Map(Filter(unmapped, LAMBDA uc : MapGet(mapping, uc.name) \in {None, "NEW"}),
                LAMBDA uc : [id |-> "cat-auto-" \o ToString(stamp) \o "-" \o ToString(uc.name),
                             name |-> uc.name, type |-> EXPENSE,
                             subcategories |-> <<>>])

-----------------------------------------------------------------------------
(* Inputs *)

\* a limit on the fresh stamps (uploads, syncs, manual entries) of one run
MaxStamp == 1

Hdr == <<<<"h">>, <<"h">>, <<"h">>, <<"h">>, <<"h">>>>

\* columns: date, description, amount or debit, credit, category label
RowA == <<<<"2024-01-05">>, <<"A", "b">>, <<"-", "1", ".", "5">>, <<>>,
          <<"s", "a", "l", "e", "s">>>>
RowB == <<<<"2024-01-06">>, <<"a", "b">>, <<"2">>, <<"2">>, <<>>>>
RowC == <<<<>>, <<>>, <<"-">>, <<>>, <<"S", "a", "l", "s">>>>
RowD == <<<<"x">>>>
RowE == <<<<"2024-01-05">>, <<"A", "b">>, <<"$", "1", ".", "5", "0", "5">>,
          <<"1", ".", "5", "1">>, <<"Z", "z", "z", "z", "z", "z", "z">>>>

RowF == <<<<"2024-01-06">>, <<"a", "b">>, <<"3">>, <<"-", "2">>,
          <<"p", "r", "o", "d", "u", "c", "t">>>>
RowG == <<<<"2024-01-05">>, <<"A", "b">>, <<"2">>, <<>>,
          <<"z", "z", "z", "z", "z", "z", "z">>>>
RowH == <<<<"2024-01-06">>, <<"a", "b">>, <<"3">>, <<>>, <<"R", "a", "t", "e">>>>

RECURSIVE SeqsUpTo(_, _)
SeqsUpTo(S, n) ==
    IF n = 0 THEN {<<>>}
    ELSE LET shorter == SeqsUpTo(S, n - 1)
         IN shorter \cup {Append(q, x) : q \in shorter, x \in S}

\* uploaded grids: a header row, then data rows
Grids == {<<Hdr, RowA, RowB>>, <<Hdr, RowD, RowC>>, <<Hdr, RowE, RowA>>, <<Hdr>>,
          <<Hdr, RowF, RowH>>, <<Hdr, RowE, RowG>>}

MapSingle == [date |-> 0, description |-> 1, amount |-> 2, category |-> 4,
              account |-> -1, debit |-> -1, credit |-> -1, comments |-> -1]
MapSplit == [date |-> 0, description |-> 1, amount |-> 2, category |-> -1,
             account |-> -1, debit |-> 2, credit |-> 3, comments |-> -1]

ColumnMappings == {[m |-> MapSingle, split |-> FALSE], [m |-> MapSplit, split |-> TRUE]}

importAccountName == <<"B", "k">>

Nows == {Iso(d, "09:30") : d \in Days}

\* what the manual form can hold: parseFloat of a number input
ManualAmounts == {Num(1500), Num(-1500), NaN}

\* bank feed entries: id, posted day and time, description, amount text
FeedPool ==
    {[id |-> "f1", day |-> "2024-01-05", time |-> "09:30", description |-> <<"A", "b">>,
      amount |-> <<"-", "1", ".", "5">>],
     [id |-> "f2", day |-> "2024-01-06", time |-> "00:00", description |-> <<"a", "b">>,
      amount |-> <<>>]}

\* statement rows as the extraction service returns them
PdfPool ==
    {[date |-> <<"2024-01-05">>, description |-> <<"A", "b">>, amount |-> Num(1500),
      type |-> EXPENSE],
     [date |-> <<"2024-01-06">>, description |-> <<"a", "b">>, amount |-> Num(-2000),
      type |-> INCOME]}

\* DEFAULT_CATEGORIES, cut down to its first two categories and one subcategory
Catalog0 ==
    <<[id |-> "1", name |-> <<"S", "a", "l", "e", "s">>, type |-> INCOME,
       subcategories |-> <<[id |-> "1-1", name |-> <<"P", "r", "o", "d", "u", "c", "t">>]>>],
      [id |-> "2", name |-> <<"R", "e", "n", "t">>, type |-> EXPENSE,
       subcategories |-> <<>>]>>

-----------------------------------------------------------------------------
(* App's loading and auto-save at rest: loaded, nothing to save, an empty store *)

Types == {"categories", "transactions", "rules"}

SyncIdle ==
    /\ boot = "loaded"
    /\ loadTimer = FALSE
    /\ isLoadedRef = TRUE
    /\ watched = [t \in Types |-> <<>>]
    /\ saveTimeoutRef = [t \in Types |-> <<>>]
    /\ inflight = <<>>
    /\ db = [t \in Types |-> <<>>]
    /\ carried = [t \in Types |-> <<>>]

-----------------------------------------------------------------------------
(* ReconciliationManager as mounted: no orders, no suggestions, no modal *)

ReconInit ==
    /\ orders = <<>>
    /\ matchSuggestions = <<>>
    /\ linkingOrderId = None
    /\ allRows = <<>>
    /\ reconModal = {}

-----------------------------------------------------------------------------
(* The import flow of TransactionManager *)

EmptyCandidates == [clean |-> <<>>, duplicates |-> <<>>]

Ids(s) == {s[i].id : i \in 1..Len(s)}

\* the modals are stacked in document order; clicks reach the topmost one
ModalOrder == <<"mapper", "categoryMapper", "duplicateReview", "rules", "simpleFin">>
Top == IF modal = {} THEN None
       ELSE ModalOrder[CHOOSE i \in 1..Len(ModalOrder) :
                          /\ ModalOrder[i] \in modal
                          /\ \A j \in (i + 1)..Len(ModalOrder) : ModalOrder[j] \notin modal]

\* resetImportState
resetImportState ==
    /\ modal' = modal \ {"mapper", "categoryMapper", "duplicateReview"}
    /\ allImportRows' = <<>>
    /\ importCandidates' = EmptyCandidates
    /\ duplicatesToKeep' = {}
    /\ unmappedCategories' = <<>>

\* handleFileSelect on a spreadsheet: the grid is kept and the mapper opens
SelectFile(grid) ==
    /\ Top = None
    /\ allImportRows' = grid
    /\ modal' = {"mapper"}
    /\ importCandidates' = EmptyCandidates
    /\ duplicatesToKeep' = {}
    /\ unmappedCategories' = <<>>
    /\ last' = [op |-> "select"]
    /\ UNCHANGED <<transactions, categories, rules, ruleSuggestion, categoryMapping, selectedIds,
                   pending, nextId>>
    /\ UNCHANGED reconVars
    /\ UNCHANGED activeRule
    /\ UNCHANGED syncVars

\* handleProcessImport
ProcessImport(cm, now) ==
    /\ Top = "mapper"
    /\ nextId <= MaxStamp
    /\ LET newTxns == MapRows(Tail(allImportRows), 0, cm.m, cm.split,
                              importAccountName, now, nextId)
           unmapped == Unmapped(FoundCategories(newTxns), categories)
       IN IF unmapped # <<>>
          THEN /\ importCandidates' = [clean |-> newTxns, duplicates |-> <<>>]
               /\ unmappedCategories' = unmapped
               /\ categoryMapping' = MappingUpdates(unmapped)
               /\ modal' = (modal \ {"mapper"}) \cup {"categoryMapper"}
               /\ last' = [op |-> "process", rows |-> Tail(allImportRows),
                           cm |-> cm, txns |-> newTxns]
          ELSE /\ importCandidates' =
                      performDuplicateCheck(newTxns, <<>>, categories, transactions)
               /\ modal' = (modal \ {"mapper"}) \cup {"duplicateReview"}
               /\ last' = [op |-> "dupcheck", txns |-> newTxns, store |-> transactions,
                           rows |-> Tail(allImportRows), cm |-> cm]
               /\ UNCHANGED <<unmappedCategories, categoryMapping>>
    /\ nextId' = nextId + 1
    /\ UNCHANGED <<transactions, categories, rules, ruleSuggestion, allImportRows, duplicatesToKeep,
                   selectedIds, pending>>
    /\ UNCHANGED reconVars
    /\ UNCHANGED activeRule
    /\ UNCHANGED syncVars

\* the values the category mapper's select offers
MappingOptions ==
    {"NEW"} \cup {categories[i].id : i \in 1..Len(categories)}
            \cup UNION {Ids(categories[i].subcategories) : i \in 1..Len(categories)}

\* the select of the category mapper
SetCategoryMapping(label, value) ==
    /\ Top = "categoryMapper"
    /\ categoryMapping' = [l \in DOMAIN categoryMapping \cup {label} |->
                              IF l = label THEN value ELSE categoryMapping[l]]
    /\ categoryMapping' # categoryMapping
    /\ last' = [op |-> "map"]
    /\ UNCHANGED <<transactions, categories, rules, ruleSuggestion, allImportRows, importCandidates,
                   duplicatesToKeep, unmappedCategories, modal, selectedIds, pending,
                   nextId>>
    /\ UNCHANGED reconVars
    /\ UNCHANGED activeRule
    /\ UNCHANGED syncVars

\* handleCategoryMapConfirm
CategoryMapConfirm ==
    /\ Top = "categoryMapper"
    /\ LET cats == newCats(categories, unmappedCategories, categoryMapping, nextId)
       IN /\ categories' = cats
          /\ importCandidates' = performDuplicateCheck(importCandidates.clean,
                                     categoryMapping, cats, transactions)
          /\ last' = [op |-> "dupcheck", txns |-> importCandidates.clean,
                      store |-> transactions, before |-> categories]
    /\ modal' = (modal \ {"categoryMapper"}) \cup {"duplicateReview"}
    /\ UNCHANGED <<transactions, rules, ruleSuggestion, allImportRows, duplicatesToKeep,
                   unmappedCategories, categoryMapping, selectedIds, pending, nextId>>
    /\ UNCHANGED reconVars
    /\ UNCHANGED activeRule
    /\ UNCHANGED syncVars

\* the trash button of a clean candidate
RemoveClean(id) ==
    /\ Top = "duplicateReview"
    /\ id \in Ids(importCandidates.clean)
    /\ importCandidates' = [importCandidates EXCEPT
                               !.clean = Filter(@, LAMBDA c : c.id # id)]
    /\ last' = [op |-> "remove"]
    /\ UNCHANGED <<transactions, categories, rules, ruleSuggestion, allImportRows, duplicatesToKeep,
                   unmappedCategories, categoryMapping, modal, selectedIds, pending,
                   nextId>>
    /\ UNCHANGED reconVars
    /\ UNCHANGED activeRule
    /\ UNCHANGED syncVars

\* the checkbox of a duplicate candidate
ToggleDuplicate(id) ==
    /\ Top = "duplicateReview"
    /\ id \in Ids(importCandidates.duplicates)
    /\ duplicatesToKeep' = IF id \in duplicatesToKeep THEN duplicatesToKeep \ {id}
                           ELSE duplicatesToKeep \cup {id}
    /\ last' = [op |-> "toggle"]
    /\ UNCHANGED <<transactions, categories, rules, ruleSuggestion, allImportRows, importCandidates,
                   unmappedCategories, categoryMapping, modal, selectedIds, pending,
                   nextId>>
    /\ UNCHANGED reconVars
    /\ UNCHANGED activeRule
    /\ UNCHANGED syncVars

\* finalizeImport
FinalizeImport ==
    /\ Top = "duplicateReview"
    /\ transactions' = finalizeStore(importCandidates, duplicatesToKeep, transactions)
    /\ resetImportState
    /\ last' = [op |-> "finalize", store |-> transactions, cands |-> importCandidates,
                keep |-> duplicatesToKeep]
    /\ UNCHANGED <<categories, rules, ruleSuggestion, categoryMapping, selectedIds, pending, nextId>>
    /\ UNCHANGED reconVars
    /\ UNCHANGED activeRule
    /\ UNCHANGED syncVars

\* the Cancel button of the three import modals
CancelImport ==
    /\ Top \in {"mapper", "categoryMapper", "duplicateReview"}
    /\ resetImportState
    /\ last' = [op |-> "cancel"]
    /\ UNCHANGED <<transactions, categories, rules, ruleSuggestion, categoryMapping, selectedIds,
                   pending, nextId>>
    /\ UNCHANGED reconVars
    /\ UNCHANGED activeRule
    /\ UNCHANGED syncVars

-----------------------------------------------------------------------------
(* Manual entry, deletion, bank sync, statement extraction *)

\* the Add button of the manual modal: the form goes to the store as typed
ManualAdd(day, desc, amount) ==
    /\ Top = None
    /\ nextId <= MaxStamp
    /\ transactions' =
           <<[id |-> "manual-" \o ToString(nextId), date |-> <<day>>,
              description |-> desc, amount |-> amount, type |-> EXPENSE,
              categoryId |-> None, subcategoryId |-> None,
              account |-> <<"M", "a", "n">>, comments |-> <<>>,
              importedCategory |-> <<>>]>> \o transactions
    /\ nextId' = nextId + 1
    /\ last' = [op |-> "manual"]
    /\ UNCHANGED <<categories, rules, ruleSuggestion, allImportRows, importCandidates,
                   duplicatesToKeep, unmappedCategories, categoryMapping, modal,
                   selectedIds, pending>>
    /\ UNCHANGED reconVars
    /\ UNCHANGED activeRule
    /\ UNCHANGED syncVars

\* the trash button of a table row
DeleteTransaction(id) ==
    /\ Top = None
    /\ id \in Ids(transactions)
    /\ transactions' = Filter(transactions, LAMBDA pt : pt.id # id)
    /\ selectedIds' = selectedIds
    /\ last' = [op |-> "delete"]
    /\ UNCHANGED <<categories, rules, ruleSuggestion, allImportRows, importCandidates,
                   duplicatesToKeep, unmappedCategories, categoryMapping, modal,
                   pending, nextId>>
    /\ UNCHANGED reconVars
    /\ UNCHANGED activeRule
    /\ UNCHANGED syncVars

\* fetchSimpleFinTransactions: one transaction per feed entry
FeedTransaction(e) ==
    LET rawAmount == ParseFloat(e.amount)
    IN [id |-> "sf-" \o e.id, date |-> Iso(e.day, e.time),
        description |-> IF e.description = <<>> THEN <<"B", "a", "n", "k">>
                        ELSE e.description,
        amount |-> NumAbs(rawAmount),
        type |-> IF NumLt(rawAmount, Num(0)) THEN EXPENSE ELSE INCOME,
        categoryId |-> None, subcategoryId |-> None,
        account |-> <<"B", "k">>, comments |-> <<>>, importedCategory |-> <<>>]

\* parsePdfStatement: one transaction per extracted row, fields as returned
PdfTransaction(r, idx, stamp) ==
    [id |-> "pdf-" \o ToString(stamp) \o "-" \o ToString(idx), date |-> r.date,
     description |-> r.description, amount |-> r.amount, type |-> r.type,
     categoryId |-> None, subcategoryId |-> None,
     account |-> <<"P", "D", "F">>, comments |-> <<>>, importedCategory |-> <<>>]

Pending(kind) == {p \in pending : p.kind = kind}

\* syncSimpleFin, up to the await: the closure keeps this render's state
SyncSimpleFin ==
    /\ Top = None
    /\ Pending("simplefin") = {}
    /\ modal' = modal \cup {"simpleFin"}
    /\ pending' = pending \cup {[kind |-> "simplefin", store |-> transactions,
                                 cats |-> categories, showMapper |-> "mapper" \in modal]}
    /\ last' = [op |-> "sync"]
    /\ UNCHANGED <<transactions, categories, rules, ruleSuggestion, allImportRows, importCandidates,
                   duplicatesToKeep, unmappedCategories, categoryMapping, selectedIds,
                   nextId>>
    /\ UNCHANGED reconVars
    /\ UNCHANGED activeRule
    /\ UNCHANGED syncVars

\* the Cancel button of the bank-sync modal
CloseSimpleFin ==
    /\ Top = "simpleFin"
    /\ modal' = modal \ {"simpleFin"}
    /\ last' = [op |-> "close"]
    /\ UNCHANGED <<transactions, categories, rules, ruleSuggestion, allImportRows, importCandidates,
                   duplicatesToKeep, unmappedCategories, categoryMapping, selectedIds,
                   pending, nextId>>
    /\ UNCHANGED reconVars
    /\ UNCHANGED activeRule
    /\ UNCHANGED syncVars

\* the closure's performDuplicateCheck, run when an awaited call returns
DuplicateCheckFrom(p, txns) ==
    /\ importCandidates' = performDuplicateCheck(txns, <<>>, p.cats, p.store)
    /\ last' = [op |-> "dupcheck", txns |-> txns, store |-> p.store]

\* syncSimpleFin after the await: the feed arrived
SimpleFinDone(p, feed) ==
    /\ p \in Pending("simplefin")
    /\ nextId <= MaxStamp
    /\ nextId' = nextId + 1
    /\ DuplicateCheckFrom(p, Map(feed, FeedTransaction))
    /\ modal' = ((modal \ {"simpleFin"}) \ (IF p.showMapper THEN {"mapper"} ELSE {}))
                    \cup {"duplicateReview"}
    /\ pending' = pending \ {p}
    /\ UNCHANGED <<transactions, categories, rules, ruleSuggestion, allImportRows, duplicatesToKeep,
                   unmappedCategories, categoryMapping, selectedIds>>
    /\ UNCHANGED reconVars
    /\ UNCHANGED activeRule
    /\ UNCHANGED syncVars

\* syncSimpleFin after the await: the fetch threw
SimpleFinFailed(p) ==
    /\ p \in Pending("simplefin")
    /\ pending' = pending \ {p}
    /\ last' = [op |-> "syncFailed"]
    /\ UNCHANGED <<transactions, categories, rules, ruleSuggestion, allImportRows, importCandidates,
                   duplicatesToKeep, unmappedCategories, categoryMapping, modal,
                   selectedIds, nextId>>
    /\ UNCHANGED reconVars
    /\ UNCHANGED activeRule
    /\ UNCHANGED syncVars

\* handleFileSelect on a PDF, up to the await
SelectPdf ==
    /\ Top = None
    /\ Pending("pdf") = {}
    /\ resetImportState
    /\ pending' = pending \cup {[kind |-> "pdf", store |-> transactions,
                                 cats |-> categories, showMapper |-> "mapper" \in modal]}
    /\ last' = [op |-> "pdf"]
    /\ UNCHANGED <<transactions, categories, rules, ruleSuggestion, categoryMapping, selectedIds,
                   nextId>>
    /\ UNCHANGED reconVars
    /\ UNCHANGED activeRule
    /\ UNCHANGED syncVars

\* handleFileSelect on a PDF after the await; no rows, or a failure, changes
\* nothing
PdfDone(p, rows) ==
    /\ p \in Pending("pdf")
    /\ pending' = pending \ {p}
    /\ IF rows = <<>>
       THEN /\ last' = [op |-> "pdfEmpty"]
            /\ UNCHANGED <<importCandidates, modal, nextId>>
       ELSE /\ nextId <= MaxStamp
            /\ DuplicateCheckFrom(p, [i \in 1..Len(rows) |->
                                         PdfTransaction(rows[i], i - 1, nextId)])
            /\ modal' = (modal \ (IF p.showMapper THEN {"mapper"} ELSE {}))
                            \cup {"duplicateReview"}
            /\ nextId' = nextId + 1
    /\ UNCHANGED <<transactions, categories, rules, ruleSuggestion, allImportRows, duplicatesToKeep,
                   unmappedCategories, categoryMapping, selectedIds>>
    /\ UNCHANGED reconVars
    /\ UNCHANGED activeRule
    /\ UNCHANGED syncVars

-----------------------------------------------------------------------------
(* The import specification: a store loaded at start-up, the default catalog *)

\* what fetchData can load: nothing, or what an earlier bank sync left
InitStores == {<<>>, <<FeedTransaction(CHOOSE e \in FeedPool : e.id = "f1")>>}

InitImport ==
    /\ transactions \in InitStores
    /\ categories = Catalog0
    /\ rules = <<>>
    /\ ruleSuggestion = <<>>
    /\ allImportRows = <<>>
    /\ importCandidates = EmptyCandidates
    /\ duplicatesToKeep = {}
    /\ unmappedCategories = <<>>
    /\ categoryMapping = <<>>
    /\ modal = {}
    /\ selectedIds = <<>>
    /\ pending = {}
    /\ nextId = 1
    /\ last = [op |-> "init"]
    /\ ReconInit
    /\ activeRule = <<>>
    /\ SyncIdle

NextImport ==
    \/ \E grid \in Grids : SelectFile(grid)
    \/ \E cm \in ColumnMappings, now \in Nows : ProcessImport(cm, now)
    \/ \E i \in 1..Len(unmappedCategories), v \in MappingOptions :
           SetCategoryMapping(unmappedCategories[i].name, v)
    \/ CategoryMapConfirm
    \/ \E id \in Ids(importCandidates.clean) : RemoveClean(id)
    \/ \E id \in Ids(importCandidates.duplicates) : ToggleDuplicate(id)
    \/ FinalizeImport
    \/ CancelImport
    \/ \E day \in Days, amount \in ManualAmounts : ManualAdd(day, <<"A", "b">>, amount)
    \/ \E id \in Ids(transactions) : DeleteTransaction(id)

SpecImport == InitImport /\ [][NextImport]_vars

-----------------------------------------------------------------------------
(* The feed specification: bank sync and statement extraction *)

Feeds == SeqsUpTo(FeedPool, 1)
PdfResults == SeqsUpTo(PdfPool, 1)

NextFeeds ==
    \/ SyncSimpleFin
    \/ CloseSimpleFin
    \/ \E p \in pending, feed \in Feeds : SimpleFinDone(p, feed)
    \/ \E p \in pending : SimpleFinFailed(p)
    \/ SelectPdf
    \/ \E p \in pending, rows \in PdfResults : PdfDone(p, rows)
    \/ \E id \in Ids(importCandidates.clean) : RemoveClean(id)
    \/ \E id \in Ids(importCandidates.duplicates) : ToggleDuplicate(id)
    \/ FinalizeImport
    \/ CancelImport
    \/ \E id \in Ids(transactions) : DeleteTransaction(id)

SpecFeeds == InitImport /\ [][NextFeeds]_vars

-----------------------------------------------------------------------------
(* Rule engine: applyRules, saveRule, deleteRule *)

\* one condition of a rule, tested on a transaction
evalCondition(c, t) ==
    LET val == CASE c.field = "description" -> ToLowerCase(t.description)
                 [] c.field = "account" -> ToLowerCase(t.account)
                 [] c.field = "amount" -> NumberToString(t.amount)
                 [] OTHER -> <<>>
        target == ToLowerCase(c.value)
    IN IF c.field = "amount"
       THEN LET numVal == ParseFloat(val)
                numTarget == ParseFloat(target)
            IN CASE c.operator = "equals" ->
                        NumLt(NumAbs(NumSub(numVal, numTarget)), Num(Cent))
                 [] c.operator = "greater" -> NumGt(numVal, numTarget)
                 [] c.operator = "less" -> NumLt(numVal, numTarget)
                 [] OTHER -> FALSE
       ELSE CASE c.operator = "contains" -> Includes(val, target)
              [] c.operator = "equals" -> val = target
              [] c.operator = "starts_with" -> StartsWith(val, target)
              [] c.operator = "ends_with" -> EndsWith(val, target)
              [] OTHER -> FALSE

\* a variant that wants every condition to hold, whatever the matchLogic
isMatchEvery(rule, t) ==
    \A i \in 1..Len(rule.conditions) : evalCondition(rule.conditions[i], t)

\* matchLogic === 'AND' ? matches.every(Boolean) : matches.some(Boolean)
isMatch(rule, t) ==
    LET matches == Map(rule.conditions, LAMBDA c : evalCondition(c, t))
    IN IF rule.matchLogic = "AND"
       THEN \A i \in 1..Len(matches) : matches[i]
       ELSE \E i \in 1..Len(matches) : matches[i]

\* a variant that leaves the type of the transaction alone
ruleAssignKeepsType(t, rule, cats) ==
    [t EXCEPT !.categoryId = rule.targetCategoryId,
              !.subcategoryId = rule.targetSubcategoryId]

\* { ...t, categoryId, subcategoryId, type: cat?.type || t.type }
ruleAssign(t, rule, cats) ==
    [t EXCEPT !.categoryId = rule.targetCategoryId,
              !.subcategoryId = rule.targetSubcategoryId,
              !.type = IF HasCategory(cats, rule.targetCategoryId)
                       THEN CategoryById(cats, rule.targetCategoryId).type
                       ELSE t.type]

RECURSIVE ruleLoop(_, _, _)
\* the for loop over the active rules: the first match returns
ruleLoop(t, active, cats) ==
    IF active = <<>> THEN t
    ELSE IF isMatch(Head(active), t) THEN ruleAssign(t, Head(active), cats)
    ELSE ruleLoop(t, Tail(active), cats)

RECURSIVE ruleLoopOther(_, _, _)
\* a loop that passes over the rules whose target the transaction has already
ruleLoopOther(t, active, cats) ==
    IF active = <<>> THEN t
    ELSE IF /\ isMatch(Head(active), t)
            /\ Head(active).targetCategoryId # t.categoryId
         THEN ruleAssign(t, Head(active), cats)
    ELSE ruleLoopOther(t, Tail(active), cats)

\* a variant with no test of t.categoryId
ruleCallbackNoSkip(t, rs, cats) ==
    ruleLoop(t, Filter(rs, LAMBDA r : r.isActive), cats)

\* a variant with no test of t.categoryId that looks for a rule with another
\* target
ruleCallbackRetarget(t, rs, cats) ==
    ruleLoopOther(t, Filter(rs, LAMBDA r : r.isActive), cats)

\* the callback of prev.map: categorized transactions are returned as they are
ruleCallback(t, rs, cats) ==
    IF t.categoryId # None THEN t
    ELSE ruleLoop(t, Filter(rs, LAMBDA r : r.isActive), cats)

\* the store applyRules leaves
applyRulesTo(store, rs, cats) == Map(store, LAMBDA t : ruleCallback(t, rs, cats))

\* applyRules
applyRules ==
    /\ Top = None
    /\ rules # <<>>
    /\ transactions' = applyRulesTo(transactions, rules, categories)
    /\ last' = [op |-> "rules", before |-> transactions, cats |-> categories,
                again |-> last.op = "rules"]
    /\ UNCHANGED <<categories, rules, ruleSuggestion, allImportRows, importCandidates,
                   duplicatesToKeep, unmappedCategories, categoryMapping, modal,
                   selectedIds, pending, nextId>>
    /\ UNCHANGED reconVars
    /\ UNCHANGED activeRule
    /\ UNCHANGED syncVars

\* the rule saveRule builds from the editor's draft; a draft with no
\* conditions field reads as the empty list
newRule(draft, cats, stamp) ==
    [id |-> IF draft.id # None THEN draft.id
            ELSE "rule-" \o ToString(stamp),
     name |-> draft.name,
     isActive |-> TRUE,
     matchLogic |-> draft.matchLogic,
     conditions |-> draft.conditions,
     targetCategoryId |-> IF draft.targetCategoryId # None
                          THEN draft.targetCategoryId
                          ELSE cats[1].id,
     targetSubcategoryId |-> draft.targetSubcategoryId]

\* the updater of setRules: replace the rule of that id, or append
savedRules(prev, r) ==
    IF Some(prev, LAMBDA x : x.id = r.id)
    THEN [i \in 1..Len(prev) |->
             IF i = (CHOOSE k \in 1..Len(prev) :
                        prev[k].id = r.id /\ \A j \in 1..(k - 1) : prev[j].id # r.id)
             THEN r ELSE prev[i]]
    ELSE Append(prev, r)

\* saveRule, the Save Rule button of the rule manager; nothing happens
\* without a draft or without a name, and with no target and an empty catalog
\* the handler throws
saveRule ==
    /\ Top = "rules"
    /\ activeRule # <<>>
    /\ activeRule[1].name # <<>>
    /\ activeRule[1].targetCategoryId # None \/ categories # <<>>
    /\ activeRule[1].id = None => nextId <= MaxStamp
    /\ rules' = savedRules(rules, newRule(activeRule[1], categories, nextId))
    /\ activeRule' = <<>>
    /\ nextId' = IF activeRule[1].id = None THEN nextId + 1 ELSE nextId
    /\ last' = [op |-> "saveRule"]
    /\ UNCHANGED <<transactions, categories, ruleSuggestion, allImportRows,
                   importCandidates, duplicatesToKeep, unmappedCategories,
                   categoryMapping, modal, selectedIds, pending>>
    /\ UNCHANGED reconVars
    /\ UNCHANGED syncVars

\* deleteRule, the Delete button of a rule of the rule manager
deleteRule(id) ==
    /\ Top = "rules"
    /\ id \in Ids(rules)
    /\ rules' = Filter(rules, LAMBDA r : r.id # id)
    /\ last' = [op |-> "deleteRule"]
    /\ UNCHANGED <<transactions, categories, ruleSuggestion, allImportRows,
                   importCandidates, duplicatesToKeep, unmappedCategories,
                   categoryMapping, modal, selectedIds, pending, nextId>>
    /\ UNCHANGED reconVars
    /\ UNCHANGED activeRule
    /\ UNCHANGED syncVars

\* the Manage Rules button of the toolbar
OpenRules ==
    /\ Top = None
    /\ modal' = modal \cup {"rules"}
    /\ last' = [op |-> "openRules"]
    /\ UNCHANGED <<transactions, categories, rules, ruleSuggestion, allImportRows,
                   importCandidates, duplicatesToKeep, unmappedCategories,
                   categoryMapping, selectedIds, pending, nextId, activeRule>>
    /\ UNCHANGED reconVars
    /\ UNCHANGED syncVars

\* the Close button of the rule manager; the draft stays in the editor
CloseRules ==
    /\ Top = "rules"
    /\ modal' = modal \ {"rules"}
    /\ last' = [op |-> "closeRules"]
    /\ UNCHANGED <<transactions, categories, rules, ruleSuggestion, allImportRows,
                   importCandidates, duplicatesToKeep, unmappedCategories,
                   categoryMapping, selectedIds, pending, nextId, activeRule>>
    /\ UNCHANGED reconVars
    /\ UNCHANGED syncVars

\* the fields of the rule editor, filled in by hand, the Edit button of a
\* stored rule and the Clear button: setActiveRule(...)
SetActiveRule(draft) ==
    /\ Top = "rules"
    /\ activeRule' = draft
    /\ activeRule' # activeRule
    /\ last' = [op |-> "draft"]
    /\ UNCHANGED <<transactions, categories, rules, ruleSuggestion, allImportRows,
                   importCandidates, duplicatesToKeep, unmappedCategories,
                   categoryMapping, modal, selectedIds, pending, nextId>>
    /\ UNCHANGED reconVars
    /\ UNCHANGED syncVars

\* a condition of a rule
Condition(field, operator, value) ==
    [field |-> field, operator |-> operator, value |-> value]

\* the rule the editor is filled with when a suggestion is accepted
SuggestedDraft(suggestion) ==
    [id |-> None,
     name |-> <<"A", "u", "t", "o", ":", " ", "\"">> \o suggestion.condition \o <<"\"">>,
     matchLogic |-> "AND",
     conditions |-> <<Condition("description", "starts_with", suggestion.condition)>>,
     targetCategoryId |-> suggestion.categoryId,
     targetSubcategoryId |-> suggestion.subcategoryId]

\* a variant that stores the suggested rule at once
acceptRuleSuggestionSaving ==
    /\ Top = None
    /\ ruleSuggestion # <<>>
    /\ nextId <= MaxStamp
    /\ rules' = savedRules(rules, newRule(SuggestedDraft(ruleSuggestion[1]),
                                          categories, nextId))
    /\ nextId' = nextId + 1
    /\ ruleSuggestion' = <<>>
    /\ last' = [op |-> "acceptSuggestion", suggestion |-> ruleSuggestion[1]]
    /\ UNCHANGED <<transactions, categories, allImportRows, importCandidates,
                   duplicatesToKeep, unmappedCategories, categoryMapping, modal,
                   selectedIds, pending, activeRule>>
    /\ UNCHANGED reconVars
    /\ UNCHANGED syncVars

\* acceptRuleSuggestion, the Create Rule button of the suggestion banner: the
\* editor is filled and the rule manager opens
acceptRuleSuggestion ==
    /\ Top = None
    /\ ruleSuggestion # <<>>
    /\ activeRule' = <<SuggestedDraft(ruleSuggestion[1])>>
    /\ modal' = modal \cup {"rules"}
    /\ ruleSuggestion' = <<>>
    /\ last' = [op |-> "acceptSuggestion", suggestion |-> ruleSuggestion[1]]
    /\ UNCHANGED <<transactions, categories, rules, allImportRows, importCandidates,
                   duplicatesToKeep, unmappedCategories, categoryMapping,
                   selectedIds, pending, nextId>>
    /\ UNCHANGED reconVars
    /\ UNCHANGED syncVars

\* the Ignore button of the suggestion banner
ignoreRuleSuggestion ==
    /\ Top = None
    /\ ruleSuggestion # <<>>
    /\ ruleSuggestion' = <<>>
    /\ last' = [op |-> "ignoreSuggestion"]
    /\ UNCHANGED <<transactions, categories, rules, allImportRows, importCandidates,
                   duplicatesToKeep, unmappedCategories, categoryMapping, modal,
                   selectedIds, pending, nextId, activeRule>>
    /\ UNCHANGED reconVars
    /\ UNCHANGED syncVars

-----------------------------------------------------------------------------
(* Categorization: the row select, the bulk bar, rule learning, the AI call *)

\* the values renderCategoryOptions offers: every category and subcategory id
CategoryOptions(cats) ==
    {cats[i].id : i \in 1..Len(cats)}
        \cup UNION {Ids(cats[i].subcategories) : i \in 1..Len(cats)}

\* catId and subId of handleUnifiedCategoryChange: the category of that id,
\* or the first category holding a subcategory of that id
UnifiedTarget(cats, value) ==
    IF HasCategory(cats, value) THEN [catId |-> value, subId |-> None]
    ELSE IF IsSubId(cats, value)
    THEN [catId |-> CategoryOfSubFirst(cats, value).id, subId |-> value]
    ELSE [catId |-> None, subId |-> None]

\* catId and subId of handleBulkUpdate: a forEach, so the last category
\* holding the subcategory
BulkTarget(cats, value) ==
    IF HasCategory(cats, value) THEN [catId |-> value, subId |-> None]
    ELSE IF IsSubId(cats, value)
    THEN [catId |-> CategoryOfSubLast(cats, value).id, subId |-> value]
    ELSE [catId |-> None, subId |-> None]

RECURSIVE CommonLength(_, _)
\* how many leading characters agree, case aside
CommonLength(s1, s2) ==
    IF s1 # <<>> /\ s2 # <<>> /\ LowerChar(Head(s1)) = LowerChar(Head(s2))
    THEN 1 + CommonLength(Tail(s1), Tail(s2))
    ELSE 0

getCommonPrefix(s1, s2) == Trim(SubSeq(s1, 1, CommonLength(s1, s2)))

\* isNaN(Number(prefix)), for text of digits, a sign and a point
NumberIsNaN(s) ==
    LET body == IF s # <<>> /\ Head(s) \in {"-", "+"} THEN Tail(s) ELSE s
        ip == DigitRun(body)
        rest == SubSeq(body, Len(ip) + 1, Len(body))
        fp == IF rest # <<>> /\ Head(rest) = "." THEN DigitRun(Tail(rest)) ELSE <<>>
    IN ~(\/ s = <<>>
         \/ /\ ip \o fp # <<>>
            /\ rest \in {<<>>, <<".">> \o fp})

\* the suggestion checkRuleOpportunity leaves: the first other transaction of
\* the category that yields a usable prefix no rule tests yet
checkRuleOpportunity(store, rs, currentTxn, targetCatId, targetSubId, current) ==
    LET others == Filter(store, LAMBDA t : t.id # currentTxn.id
                                           /\ t.categoryId = targetCatId)
        prefixOf(other) == getCommonPrefix(currentTxn.description, other.description)
        alreadyExists(prefix) ==
            Some(rs, LAMBDA r :
                /\ r.targetCategoryId = targetCatId
                /\ Some(r.conditions,
                        LAMBDA c : ToLowerCase(c.value) = ToLowerCase(prefix)))
        usable(other) == /\ Len(prefixOf(other)) >= 4
                         /\ NumberIsNaN(prefixOf(other))
                         /\ ~alreadyExists(prefixOf(other))
    IN IF Some(others, usable)
       THEN <<[condition |-> prefixOf(Find(others, usable)),
               categoryId |-> targetCatId, subcategoryId |-> targetSubId]>>
       ELSE current

\* handleUnifiedCategoryChange; the empty value reverts to uncategorized
handleUnifiedCategoryChange(transactionId, value) ==
    /\ Top = None
    /\ transactionId \in Ids(transactions)
    /\ IF value = ""
       THEN /\ transactions' =
                   Map(transactions, LAMBDA t :
                       IF t.id = transactionId
                       THEN [t EXCEPT !.categoryId = None, !.subcategoryId = None]
                       ELSE t)
            /\ last' = [op |-> "uncategorize", ids |-> {}]
            /\ UNCHANGED ruleSuggestion
       ELSE LET tg == UnifiedTarget(categories, value)
            IN IF tg.catId # None
               THEN /\ transactions' =
                           Map(transactions, LAMBDA t :
                               IF t.id = transactionId
                               THEN [t EXCEPT
                                       !.categoryId = tg.catId,
                                       !.subcategoryId = tg.subId,
                                       !.type = CategoryById(categories, tg.catId).type]
                               ELSE t)
                    /\ ruleSuggestion' =
                           checkRuleOpportunity(transactions, rules,
                               Find(transactions, LAMBDA t : t.id = transactionId),
                               tg.catId, tg.subId, ruleSuggestion)
                    /\ last' = [op |-> "categorize", cats |-> categories,
                                ids |-> {transactionId}]
               ELSE /\ last' = [op |-> "categorize", cats |-> categories,
                                ids |-> {}]
                    /\ UNCHANGED <<transactions, ruleSuggestion>>
    /\ UNCHANGED <<categories, rules, allImportRows, importCandidates,
                   duplicatesToKeep, unmappedCategories, categoryMapping, modal,
                   selectedIds, pending, nextId>>
    /\ UNCHANGED reconVars
    /\ UNCHANGED activeRule
    /\ UNCHANGED syncVars

\* the checkbox of a table row
ToggleSelect(id) ==
    /\ Top = None
    /\ id \in Ids(transactions)
    /\ selectedIds' = IF id \in Range(selectedIds)
                      THEN Filter(selectedIds, LAMBDA x : x # id)
                      ELSE Append(selectedIds, id)
    /\ last' = [op |-> "tick"]
    /\ UNCHANGED <<transactions, categories, rules, ruleSuggestion, allImportRows,
                   importCandidates, duplicatesToKeep, unmappedCategories,
                   categoryMapping, modal, pending, nextId>>
    /\ UNCHANGED reconVars
    /\ UNCHANGED activeRule
    /\ UNCHANGED syncVars

\* handleBulkUpdate; the bar shows while something is ticked
handleBulkUpdate(bulkCategorySelect) ==
    /\ Top = None
    /\ selectedIds # <<>>
    /\ bulkCategorySelect # ""
    /\ LET tg == BulkTarget(categories, bulkCategorySelect)
           firstId == selectedIds[1]
       IN /\ tg.catId # None
          /\ transactions' =
                 Map(transactions, LAMBDA t :
                     IF t.id \in Range(selectedIds)
                     THEN [t EXCEPT !.categoryId = tg.catId,
                                    !.subcategoryId = tg.subId,
                                    !.type = CategoryById(categories, tg.catId).type]
                     ELSE t)
          /\ ruleSuggestion' =
                 IF firstId \in Ids(transactions)
                 THEN checkRuleOpportunity(transactions, rules,
                          Find(transactions, LAMBDA t : t.id = firstId),
                          tg.catId, tg.subId, ruleSuggestion)
                 ELSE ruleSuggestion
    /\ selectedIds' = <<>>
    /\ last' = [op |-> "bulk", cats |-> categories, ids |-> Range(selectedIds)]
    /\ UNCHANGED <<categories, rules, allImportRows, importCandidates,
                   duplicatesToKeep, unmappedCategories, categoryMapping, modal,
                   pending, nextId>>
    /\ UNCHANGED reconVars
    /\ UNCHANGED activeRule
    /\ UNCHANGED syncVars

\* isProcessing: one of the three AI handlers of the toolbar has not returned;
\* their buttons are disabled meanwhile
Processing == Pending("ai") \cup Pending("merchants") \cup Pending("anomalies")

\* { ...t, <fields> }: the fields given replace or extend those of t
Spread(t, fields) ==
    [k \in DOMAIN t \cup DOMAIN fields |-> IF k \in DOMAIN fields THEN fields[k] ELSE t[k]]

\* handleAutoCategorize, up to the await: the uncategorized transactions and
\* the catalog of this render go to the service
AutoCategorize ==
    /\ Top = None
    /\ Processing = {}
    /\ pending' = pending \cup
           {[kind |-> "ai",
             ids |-> Map(Filter(transactions, LAMBDA t : t.categoryId = None),
                         LAMBDA t : t.id),
             cats |-> categories]}
    /\ last' = [op |-> "aiStart"]
    /\ UNCHANGED <<transactions, categories, rules, ruleSuggestion, allImportRows,
                   importCandidates, duplicatesToKeep, unmappedCategories,
                   categoryMapping, modal, selectedIds, nextId>>
    /\ UNCHANGED reconVars
    /\ UNCHANGED activeRule
    /\ UNCHANGED syncVars

\* the updater of handleAutoCategorize: a mapped transaction takes the ids of
\* its mapping as they come
aiAssign(t, mappings, cats) ==
    IF Some(mappings, LAMBDA m : m.id = t.id)
    THEN LET mapping == Find(mappings, LAMBDA m : m.id = t.id)
         IN [t EXCEPT !.categoryId = mapping.categoryId,
                      !.subcategoryId = mapping.subcategoryId,
                      !.type = IF HasCategory(cats, mapping.categoryId)
                               THEN CategoryById(cats, mapping.categoryId).type
                               ELSE t.type]
    ELSE t

\* handleAutoCategorize after the await; a failed call answers with no mapping
AutoCategorizeDone(p, mappings) ==
    /\ p \in Pending("ai")
    /\ transactions' = Map(transactions, LAMBDA t : aiAssign(t, mappings, p.cats))
    /\ pending' = pending \ {p}
    /\ last' = [op |-> "ai", cats |-> p.cats,
                ids |-> {mappings[i].id : i \in 1..Len(mappings)},
                answer |-> mappings, before |-> transactions, sent |-> p.ids]
    /\ UNCHANGED <<categories, rules, ruleSuggestion, allImportRows, importCandidates,
                   duplicatesToKeep, unmappedCategories, categoryMapping, modal,
                   selectedIds, nextId>>
    /\ UNCHANGED reconVars
    /\ UNCHANGED activeRule
    /\ UNCHANGED syncVars

\* handleNormalizeMerchants, up to the awaited answer: normalizeMerchants is
\* given this render's transactions and asks about those without a merchant
NormalizeMerchants ==
    /\ Top = None
    /\ Processing = {}
    /\ pending' = pending \cup
           {[kind |-> "merchants", failed |-> FALSE,
             ids |-> Map(Filter(transactions, LAMBDA t :
                             ~("merchant" \in DOMAIN t /\ t.merchant # <<>>)),
                         LAMBDA t : t.id)]}
    /\ last' = [op |-> "merchantsStart"]
    /\ UNCHANGED <<transactions, categories, rules, ruleSuggestion, allImportRows,
                   importCandidates, duplicatesToKeep, unmappedCategories,
                   categoryMapping, modal, selectedIds, nextId>>
    /\ UNCHANGED reconVars
    /\ UNCHANGED activeRule
    /\ UNCHANGED syncVars

\* handleNormalizeMerchants after the await; a failed call, and an empty list
\* of inputs, answer with no update
NormalizeMerchantsDone(p, updates) ==
    /\ p \in Pending("merchants")
    /\ ~p.failed
    /\ transactions' =
           Map(transactions, LAMBDA t :
               IF Some(updates, LAMBDA u : u.id = t.id)
               THEN Spread(t, [merchant |->
                                   Find(updates, LAMBDA u : u.id = t.id).merchant])
               ELSE t)
    /\ pending' = pending \ {p}
    /\ last' = [op |-> "merchants", answer |-> updates, before |-> transactions]
    /\ UNCHANGED <<categories, rules, ruleSuggestion, allImportRows, importCandidates,
                   duplicatesToKeep, unmappedCategories, categoryMapping, modal,
                   selectedIds, nextId>>
    /\ UNCHANGED reconVars
    /\ UNCHANGED activeRule
    /\ UNCHANGED syncVars

\* handleDetectAnomalies, up to the awaited answer: every transaction of this
\* render goes to the service
DetectAnomalies ==
    /\ Top = None
    /\ Processing = {}
    /\ pending' = pending \cup
           {[kind |-> "anomalies", failed |-> FALSE,
             ids |-> Map(transactions, LAMBDA t : t.id)]}
    /\ last' = [op |-> "anomaliesStart"]
    /\ UNCHANGED <<transactions, categories, rules, ruleSuggestion, allImportRows,
                   importCandidates, duplicatesToKeep, unmappedCategories,
                   categoryMapping, modal, selectedIds, nextId>>
    /\ UNCHANGED reconVars
    /\ UNCHANGED activeRule
    /\ UNCHANGED syncVars

\* the updater of handleDetectAnomalies: a transaction the answer names is
\* flagged with its reason, every other one is written as not flagged
anomalyMark(t, anomalies) ==
    IF Some(anomalies, LAMBDA a : a.id = t.id)
    THEN Spread(t, [isAnomaly |-> TRUE,
                    anomalyReason |-> Find(anomalies, LAMBDA a : a.id = t.id).reason])
    ELSE Spread(t, [isAnomaly |-> FALSE, anomalyReason |-> <<>>])

\* handleDetectAnomalies after the await; a failed call answers with nothing
DetectAnomaliesDone(p, anomalies) ==
    /\ p \in Pending("anomalies")
    /\ ~p.failed
    /\ transactions' = Map(transactions, LAMBDA t : anomalyMark(t, anomalies))
    /\ pending' = pending \ {p}
    /\ last' = [op |-> "anomalies", answer |-> anomalies, before |-> transactions]
    /\ UNCHANGED <<categories, rules, ruleSuggestion, allImportRows, importCandidates,
                   duplicatesToKeep, unmappedCategories, categoryMapping, modal,
                   selectedIds, nextId>>
    /\ UNCHANGED reconVars
    /\ UNCHANGED activeRule
    /\ UNCHANGED syncVars

\* normalizeMerchants and detectAnomalies parse the answer outside any try:
\* on text that is no JSON the handler stops at its await, nothing is
\* written and isProcessing stays set
AnswerUnparsable(p) ==
    /\ p \in Pending("merchants") \cup Pending("anomalies")
    /\ ~p.failed
    /\ pending' = (pending \ {p}) \cup {[p EXCEPT !.failed = TRUE]}
    /\ last' = [op |-> "unparsable"]
    /\ UNCHANGED <<transactions, categories, rules, ruleSuggestion, allImportRows,
                   importCandidates, duplicatesToKeep, unmappedCategories,
                   categoryMapping, modal, selectedIds, nextId>>
    /\ UNCHANGED reconVars
    /\ UNCHANGED activeRule
    /\ UNCHANGED syncVars

-----------------------------------------------------------------------------
(* Catalog: the handlers of CategoryManager *)

\* handleAddCategory; a blank name is refused
handleAddCategory(newCatName, newCatType) ==
    /\ Top = None
    /\ Trim(newCatName) # <<>>
    /\ nextId <= MaxStamp
    /\ categories' = Append(categories,
           [id |-> "cat-" \o ToString(nextId), name |-> newCatName,
            type |-> newCatType, subcategories |-> <<>>])
    /\ nextId' = nextId + 1
    /\ last' = [op |-> "addCategory"]
    /\ UNCHANGED <<transactions, rules, ruleSuggestion, allImportRows,
                   importCandidates, duplicatesToKeep, unmappedCategories,
                   categoryMapping, modal, selectedIds, pending>>
    /\ UNCHANGED reconVars
    /\ UNCHANGED activeRule
    /\ UNCHANGED syncVars

\* handleDeleteCategory: the catalog entry goes, references to it stay
handleDeleteCategory(id) ==
    /\ Top = None
    /\ id \in Ids(categories)
    /\ categories' = Filter(categories, LAMBDA c : c.id # id)
    /\ last' = [op |-> "deleteCategory"]
    /\ UNCHANGED <<transactions, rules, ruleSuggestion, allImportRows,
                   importCandidates, duplicatesToKeep, unmappedCategories,
                   categoryMapping, modal, selectedIds, pending, nextId>>
    /\ UNCHANGED reconVars
    /\ UNCHANGED activeRule
    /\ UNCHANGED syncVars

\* handleAddSubcategory; a blank name is refused
handleAddSubcategory(categoryId, name) ==
    /\ Top = None
    /\ categoryId \in Ids(categories)
    /\ Trim(name) # <<>>
    /\ nextId <= MaxStamp
    /\ categories' =
           Map(categories, LAMBDA c :
               IF c.id = categoryId
               THEN [c EXCEPT !.subcategories =
                        Append(@, [id |-> "sub-" \o ToString(nextId), name |-> name])]
               ELSE c)
    /\ nextId' = nextId + 1
    /\ last' = [op |-> "addSubcategory"]
    /\ UNCHANGED <<transactions, rules, ruleSuggestion, allImportRows,
                   importCandidates, duplicatesToKeep, unmappedCategories,
                   categoryMapping, modal, selectedIds, pending>>
    /\ UNCHANGED reconVars
    /\ UNCHANGED activeRule
    /\ UNCHANGED syncVars

\* handleDeleteSubcategory: references to the subcategory stay
handleDeleteSubcategory(categoryId, subId) ==
    /\ Top = None
    /\ categoryId \in Ids(categories)
    /\ HasSub(CategoryById(categories, categoryId), subId)
    /\ categories' =
           Map(categories, LAMBDA c :
               IF c.id = categoryId
               THEN [c EXCEPT !.subcategories = Filter(@, LAMBDA sc : sc.id # subId)]
               ELSE c)
    /\ last' = [op |-> "deleteSubcategory"]
    /\ UNCHANGED <<transactions, rules, ruleSuggestion, allImportRows,
                   importCandidates, duplicatesToKeep, unmappedCategories,
                   categoryMapping, modal, selectedIds, pending, nextId>>
    /\ UNCHANGED reconVars
    /\ UNCHANGED activeRule
    /\ UNCHANGED syncVars

-----------------------------------------------------------------------------
(* The rule specification: a loaded store and rule list, the default catalog *)

StoredTransaction(id, description, amount, type, categoryId) ==
    [id |-> id, date |-> Iso("2024-01-05", "09:30"), description |-> description,
     amount |-> amount, type |-> type, categoryId |-> categoryId,
     subcategoryId |-> None, account |-> <<"B", "k">>, comments |-> <<>>,
     importedCategory |-> <<>>]

TxUber1 == StoredTransaction("t1", <<"U", "b", "e", "r", " ", "1">>, Num(1500),
                             EXPENSE, None)
TxUber2 == StoredTransaction("t2", <<"U", "B", "E", "R", " ", "2">>, Num(2000),
                             INCOME, None)

\* an inactive rule, as only a loaded rule list can hold
RuleOff ==
    [id |-> "r0", name |-> <<"o", "f", "f">>, isActive |-> FALSE, matchLogic |-> "AND",
     conditions |-> <<Condition("description", "contains", <<"u", "b", "e", "r">>)>>,
     targetCategoryId |-> "2", targetSubcategoryId |-> None]

RuleUber ==
    [id |-> "r1", name |-> <<"u", "b", "e", "r">>, isActive |-> TRUE,
     matchLogic |-> "AND",
     conditions |-> <<Condition("description", "starts_with", <<"U", "B", "E", "R">>),
                      Condition("amount", "less", <<"1", ".", "8">>)>>,
     targetCategoryId |-> "1", targetSubcategoryId |-> "1-1"]

RuleBank ==
    [id |-> "r2", name |-> <<"b", "k">>, isActive |-> TRUE, matchLogic |-> "OR",
     conditions |-> <<Condition("description", "contains", <<"z", "z">>),
                      Condition("account", "equals", <<"b", "k">>)>>,
     targetCategoryId |-> "2", targetSubcategoryId |-> None]

InitRuleLists == {<<>>, <<RuleOff, RuleUber, RuleBank>>}

\* what the rule editor can hold when Save is pressed: a new rule, or a
\* stored rule loaded by its Edit button
NewDrafts ==
    {[id |-> None, name |-> <<"n", "e", "w">>, matchLogic |-> ml, conditions |-> cs,
      targetCategoryId |-> None, targetSubcategoryId |-> None] :
        ml \in {"AND", "OR"},
        cs \in {<<>>, <<Condition("description", "ends_with", <<"2">>)>>}}

EditDrafts ==
    {[id |-> rules[i].id, name |-> rules[i].name, matchLogic |-> rules[i].matchLogic,
      conditions |-> rules[i].conditions,
      targetCategoryId |-> rules[i].targetCategoryId,
      targetSubcategoryId |-> rules[i].targetSubcategoryId] : i \in 1..Len(rules)}

InitRules ==
    /\ transactions = <<TxUber1, TxUber2>>
    /\ categories = Catalog0
    /\ rules \in InitRuleLists
    /\ ruleSuggestion = <<>>
    /\ allImportRows = <<>>
    /\ importCandidates = EmptyCandidates
    /\ duplicatesToKeep = {}
    /\ unmappedCategories = <<>>
    /\ categoryMapping = <<>>
    /\ modal = {}
    /\ selectedIds = <<>>
    /\ pending = {}
    /\ nextId = 1
    /\ last = [op |-> "init"]
    /\ ReconInit
    /\ activeRule = <<>>
    /\ SyncIdle

NextRules ==
    \/ applyRules
    \/ OpenRules
    \/ CloseRules
    \/ \E draft \in {<<>>} \cup {<<d>> : d \in NewDrafts} : SetActiveRule(draft)
    \/ saveRule
    \/ \E id \in Ids(rules) : deleteRule(id)
    \/ \E id \in Ids(transactions), value \in {"", "2"} :
           handleUnifiedCategoryChange(id, value)

SpecRules == InitRules /\ [][NextRules]_vars

-----------------------------------------------------------------------------
(* The suggestion specification: rule learning from the row select, the   *)
(* suggestion banner and the rule manager, starting with no rule          *)

InitSuggest ==
    /\ transactions = <<TxUber1, TxUber2>>
    /\ categories = Catalog0
    /\ rules = <<>>
    /\ ruleSuggestion = <<>>
    /\ allImportRows = <<>>
    /\ importCandidates = EmptyCandidates
    /\ duplicatesToKeep = {}
    /\ unmappedCategories = <<>>
    /\ categoryMapping = <<>>
    /\ modal = {}
    /\ selectedIds = <<>>
    /\ pending = {}
    /\ nextId = 1
    /\ last = [op |-> "init"]
    /\ ReconInit
    /\ activeRule = <<>>
    /\ SyncIdle

NextSuggest ==
    \/ \E id \in Ids(transactions), value \in {"2", "1-1"} :
           handleUnifiedCategoryChange(id, value)
    \/ acceptRuleSuggestion
    \/ ignoreRuleSuggestion
    \/ OpenRules
    \/ CloseRules
    \/ \E draft \in {<<>>} \cup {<<d>> : d \in EditDrafts} : SetActiveRule(draft)
    \/ saveRule
    \/ \E id \in Ids(rules) : deleteRule(id)
    \/ applyRules

SpecSuggest == InitSuggest /\ [][NextSuggest]_vars

-----------------------------------------------------------------------------
(* The categorization specification: manual and bulk changes, rule runs, the *)
(* AI call and the catalog handlers over a loaded store and rule list        *)

Init ==
    /\ transactions = <<TxUber1>>
    /\ categories = Catalog0
    /\ rules = <<RuleOff, RuleUber, RuleBank>>
    /\ ruleSuggestion = <<>>
    /\ allImportRows = <<>>
    /\ importCandidates = EmptyCandidates
    /\ duplicatesToKeep = {}
    /\ unmappedCategories = <<>>
    /\ categoryMapping = <<>>
    /\ modal = {}
    /\ selectedIds = <<>>
    /\ pending = {}
    /\ nextId = 1
    /\ last = [op |-> "init"]
    /\ ReconInit
    /\ activeRule = <<>>
    /\ SyncIdle

\* what the classification service can answer: nothing (also on failure), or
\* one mapping of a transaction it was sent to a category it was sent, with
\* no subcategory or with any subcategory id of the catalog it was sent
AiAnswers(p) ==
    {<<>>} \cup
    {<<[id |-> id, categoryId |-> c, subcategoryId |-> sc]>> :
        id \in Range(p.ids), c \in Ids(p.cats),
        sc \in {None} \cup UNION {Ids(p.cats[i].subcategories) : i \in 1..Len(p.cats)}}

Next ==
    \/ \E id \in Ids(transactions), value \in {""} \cup CategoryOptions(categories) :
           handleUnifiedCategoryChange(id, value)
    \/ \E id \in Ids(transactions) : ToggleSelect(id)
    \/ \E value \in CategoryOptions(categories) : handleBulkUpdate(value)
    \/ applyRules
    \/ AutoCategorize
    \/ \E p \in pending : \E mappings \in AiAnswers(p) : AutoCategorizeDone(p, mappings)
    \/ handleAddCategory(<<"N", "e", "w">>, INCOME)
    \/ \E id \in Ids(categories) : handleDeleteCategory(id)
    \/ \E id \in Ids(categories) : handleAddSubcategory(id, <<"S", "u", "b">>)
    \/ \E id \in Ids(categories) :
           \E subId \in Ids(CategoryById(categories, id).subcategories) :
               handleDeleteSubcategory(id, subId)

Spec == Init /\ [][Next]_vars

-----------------------------------------------------------------------------
(* The AI toolbar specification: the three AI handlers and the row select *)
(* over a loaded store                                                    *)

\* a loaded store: an uncategorized transaction that no AI handler has
\* touched, and a categorized one that an earlier analysis flagged
AiStore ==
    <<TxUber1,
      Spread(StoredTransaction("t3", <<"R", "e", "n", "t">>, Num(900000), EXPENSE, "2"),
             [isAnomaly |-> TRUE, anomalyReason |-> <<"h", "i", "g", "h">>])>>

InitAi ==
    /\ transactions = AiStore
    /\ categories = Catalog0
    /\ rules = <<>>
    /\ ruleSuggestion = <<>>
    /\ allImportRows = <<>>
    /\ importCandidates = EmptyCandidates
    /\ duplicatesToKeep = {}
    /\ unmappedCategories = <<>>
    /\ categoryMapping = <<>>
    /\ modal = {}
    /\ selectedIds = <<>>
    /\ pending = {}
    /\ nextId = 1
    /\ last = [op |-> "init"]
    /\ ReconInit
    /\ activeRule = <<>>
    /\ SyncIdle

\* what the merchant service can answer: nothing (also on failure), or a
\* name for one of the transactions it was asked about
MerchantAnswers(p) ==
    {<<>>} \cup {<<[id |-> id, merchant |-> <<"U", "b", "e", "r">>]>> : id \in Range(p.ids)}

\* what the anomaly service can answer: nothing (also on failure), or a
\* reason for one of the transactions it was sent
AnomalyAnswers(p) ==
    {<<>>} \cup {<<[id |-> id, reason |-> <<"d", "u", "p">>]>> : id \in Range(p.ids)}

\* the mappings the classification service answers in this specification
AiMappings(p) ==
    {<<>>} \cup {<<[id |-> id, categoryId |-> "1", subcategoryId |-> sc]>> :
                    id \in Range(p.ids), sc \in {None, "1-1"}}

NextAi ==
    \/ AutoCategorize
    \/ \E p \in pending : \E mappings \in AiMappings(p) : AutoCategorizeDone(p, mappings)
    \/ NormalizeMerchants
    \/ \E p \in pending : \E updates \in MerchantAnswers(p) : NormalizeMerchantsDone(p, updates)
    \/ DetectAnomalies
    \/ \E p \in pending : \E anomalies \in AnomalyAnswers(p) : DetectAnomaliesDone(p, anomalies)
    \/ \E p \in pending : AnswerUnparsable(p)
    \/ \E id \in Ids(transactions), value \in {"", "2"} :
           handleUnifiedCategoryChange(id, value)

SpecAi == InitAi /\ [][NextAi]_vars

-----------------------------------------------------------------------------
(* Properties of the import flow *)

\* the calendar day of a date string: what stands before the time of day
CalendarDay(d) == IF d # <<>> /\ d[1] # "T" THEN d[1] ELSE ""

\* two amounts less than 0.01 apart
WithinCent(a, b) == ~a.nan /\ ~b.nan /\ a.v - b.v < Cent /\ b.v - a.v < Cent

\* a stored transaction of the same day, amount and description
Matches(t, e) ==
    /\ CalendarDay(e.date) = CalendarDay(t.date)
    /\ WithinCent(e.amount, t.amount)
    /\ e.description = t.description

\* C1: right after performDuplicateCheck has run on a batch, every candidate
\* of the batch is in exactly one of the two lists: in `duplicates` iff some
\* transaction of the store the detector read has the same calendar day, an
\* amount less than 0.01 away and the same description, in `clean` otherwise;
\* the two lists together are as long as the batch.
C1_Partition ==
    last.op = "dupcheck" =>
        LET c == importCandidates.clean
            d == importCandidates.duplicates
        IN /\ Len(c) + Len(d) = Len(last.txns)
           /\ \A i \in 1..Len(last.txns) :
                  LET t == last.txns[i]
                      dup == \E j \in 1..Len(last.store) : Matches(t, last.store[j])
                  IN /\ dup <=> \E k \in 1..Len(d) : d[k].id = t.id
                     /\ ~dup <=> \E k \in 1..Len(c) : c[k].id = t.id

\* a detection that filled both lists
C1_BothLists ==
    /\ last.op = "dupcheck"
    /\ importCandidates.clean # <<>>
    /\ importCandidates.duplicates # <<>>

\* C2: right after finalizeImport, the store is the store of before, unchanged
\* and in its order, preceded by exactly the clean candidates and the
\* duplicates whose id was in duplicatesToKeep; no other duplicate was added.
C2_FinalizeAddsCleanAndKept ==
    last.op = "finalize" =>
        LET n == Len(transactions) - Len(last.store)
            added == SubSeq(transactions, 1, n)
            kept == {k \in 1..Len(last.cands.duplicates) :
                        last.cands.duplicates[k].id \in last.keep}
        IN /\ n = Len(last.cands.clean) + Cardinality(kept)
           /\ SubSeq(transactions, n + 1, Len(transactions)) = last.store
           /\ Range(added) = Range(last.cands.clean)
                                 \cup {last.cands.duplicates[k] : k \in kept}
           /\ \A k \in 1..Len(last.cands.duplicates) :
                  k \notin kept => last.cands.duplicates[k].id \notin Ids(added)

\* a finalization over a stored transaction, with one duplicate opted in and
\* another left out
C2_KeptAndDropped ==
    /\ last.op = "finalize"
    /\ last.store # <<>>
    /\ \E k \in 1..Len(last.cands.duplicates) : last.cands.duplicates[k].id \in last.keep
    /\ \E k \in 1..Len(last.cands.duplicates) :
           last.cands.duplicates[k].id \notin last.keep

\* C3: once a whole batch is committed (clean candidates and every duplicate
\* opted in), duplicate detection run again on that batch against the new
\* store leaves `clean` empty.
C3_RedetectionFindsNoClean ==
    (/\ last.op = "finalize"
     /\ \A k \in 1..Len(last.cands.duplicates) :
            last.cands.duplicates[k].id \in last.keep)
    => performDuplicateCheck(last.cands.clean \o last.cands.duplicates,
                             categoryMapping, categories, transactions).clean = <<>>

\* C10: every stored transaction has an amount that is a number and is not
\* negative.
C10_AmountsNonNegative ==
    \A i \in 1..Len(transactions) :
        ~transactions[i].amount.nan /\ transactions[i].amount.v >= 0

-----------------------------------------------------------------------------
(* Properties of the rule engine *)

\* the conditions of a rule hold on a transaction: all of them under AND, one
\* of them otherwise
Holds(rule, t) ==
    IF rule.matchLogic = "AND"
    THEN \A i \in 1..Len(rule.conditions) : evalCondition(rule.conditions[i], t)
    ELSE \E i \in 1..Len(rule.conditions) : evalCondition(rule.conditions[i], t)

\* the positions of the active rules that hold on a transaction
Matching(t) == {k \in 1..Len(rules) : rules[k].isActive /\ Holds(rules[k], t)}

First(S) == CHOOSE k \in S : \A j \in S : k <= j

\* C4: right after Run Rules, every transaction that had no categoryId has
\* the target category and subcategory of the first rule, in stored order,
\* that is active and holds on it (AND: every condition, OR: any condition);
\* a transaction on which no active rule holds is as it was.
C4_FirstMatchWins ==
    last.op = "rules" =>
        /\ Len(transactions) = Len(last.before)
        /\ \A i \in 1..Len(last.before) :
               last.before[i].categoryId = None =>
                   IF Matching(last.before[i]) = {}
                   THEN transactions[i] = last.before[i]
                   ELSE LET rule == rules[First(Matching(last.before[i]))]
                        IN /\ transactions[i].categoryId = rule.targetCategoryId
                           /\ transactions[i].subcategoryId = rule.targetSubcategoryId

\* a run on an uncategorized transaction on which an inactive rule holds and,
\* after it, two active rules with different targets
C4_SeveralRulesHold ==
    /\ last.op = "rules"
    /\ \E i \in 1..Len(last.before), j, k, l \in 1..Len(rules) :
           /\ last.before[i].categoryId = None
           /\ j < k /\ k < l
           /\ ~rules[j].isActive /\ Holds(rules[j], last.before[i])
           /\ {k, l} \subseteq Matching(last.before[i])
           /\ rules[k].targetCategoryId # rules[l].targetCategoryId
           /\ rules[j].targetCategoryId # rules[k].targetCategoryId

\* C5: right after Run Rules, every transaction the run has categorized has
\* the target of an active rule that has conditions and holds on it: a rule
\* with an empty condition list assigns nothing.
C5_EmptyRuleNeverMatches ==
    last.op = "rules" =>
        \A i \in 1..Len(last.before) :
            (last.before[i].categoryId = None /\ transactions[i].categoryId # None)
            => \E k \in Matching(last.before[i]) :
                   /\ rules[k].conditions # <<>>
                   /\ transactions[i].categoryId = rules[k].targetCategoryId
                   /\ transactions[i].subcategoryId = rules[k].targetSubcategoryId

\* C6: right after Run Rules, every transaction that had a categoryId before
\* the run is the same record as before the run.
C6_CategorizedUntouched ==
    last.op = "rules" =>
        \A i \in 1..Len(last.before) :
            last.before[i].categoryId # None => transactions[i] = last.before[i]

\* a run that changed the store while an active rule with another target
\* held on a categorized transaction
C6_RuleHoldsOnCategorized ==
    /\ last.op = "rules"
    /\ transactions # last.before
    /\ \E i \in 1..Len(last.before) :
           /\ last.before[i].categoryId # None
           /\ \E k \in Matching(last.before[i]) :
                  rules[k].targetCategoryId # last.before[i].categoryId

\* C7: a run of the rule engine that comes right after another run leaves
\* the store as the first run left it.
C7_SecondRunChangesNothing ==
    (last.op = "rules" /\ last.again) => transactions = last.before

\* a second run over a store the first run had categorized, with two active
\* rules of different targets holding on one transaction
C7_SecondRunOverMatches ==
    /\ last.op = "rules"
    /\ last.again
    /\ \E i \in 1..Len(transactions), k, l \in 1..Len(rules) :
           /\ {k, l} \subseteq Matching(transactions[i])
           /\ rules[k].targetCategoryId # rules[l].targetCategoryId
           /\ transactions[i].categoryId = rules[k].targetCategoryId

-----------------------------------------------------------------------------
(* Properties of categorization *)

\* C8: the subcategoryId of every stored transaction, if present, is the id
\* of a subcategory of the catalog category its categoryId names.
C8_SubcategoryBelongs ==
    \A i \in 1..Len(transactions) :
        transactions[i].subcategoryId # None =>
            /\ HasCategory(categories, transactions[i].categoryId)
            /\ HasSub(CategoryById(categories, transactions[i].categoryId),
                      transactions[i].subcategoryId)

\* the ids of the transactions the last handler assigned a category to
AssignedIds ==
    IF last.op = "rules"
    THEN {last.before[i].id : i \in {j \in 1..Len(last.before) :
                                        /\ last.before[j].categoryId = None
                                        /\ transactions[j].categoryId # None}}
    ELSE last.ids

\* C9: right after a manual change, a bulk update, a rule run or an AI
\* answer, every transaction the handler assigned to a category of the
\* catalog it read has that category's type.
C9_TypeFollowsCategory ==
    last.op \in {"categorize", "bulk", "rules", "ai"} =>
        \A i \in 1..Len(transactions) :
            (/\ transactions[i].id \in AssignedIds
             /\ HasCategory(last.cats, transactions[i].categoryId))
            => transactions[i].type =
                   CategoryById(last.cats, transactions[i].categoryId).type

\* a rule run that categorized a transaction and changed its type
C9_RuleChangedType ==
    /\ last.op = "rules"
    /\ \E i \in 1..Len(transactions) :
           /\ transactions[i].id \in AssignedIds
           /\ HasCategory(last.cats, transactions[i].categoryId)
           /\ transactions[i].type # last.before[i].type

-----------------------------------------------------------------------------
(* Column mapper *)

\* the data rows the mapper keeps: every row after the header that has at
\* least 2 cells
KeptRows(rows) == Filter(rows, LAMBDA r : Len(r) >= 2)

\* the number a cell parses to, once everything but digits, dots and minus
\* signs is stripped; an empty or absent cell parses as "0"
Parsed(row, col) == ParseFloat(AmountText(Cell(row, col)))

\* the mapper ran in this step, on last.rows under the mapping last.cm, and
\* built last.txns
MapperRan == last.op \in {"process", "dupcheck"} /\ "cm" \in DOMAIN last

\* C11: with split mode off, a row whose amount cell parses to a negative
\* number gives a candidate of type EXPENSE with the absolute value as amount,
\* and a row whose amount cell parses to a non-negative number gives a
\* candidate of type INCOME with that number as amount.
C11_NonSplitNormalization ==
    (MapperRan /\ ~last.cm.split) =>
        LET rows == KeptRows(last.rows)
        IN /\ Len(last.txns) = Len(rows)
           /\ \A i \in 1..Len(rows) :
                  LET a == Parsed(rows[i], last.cm.m.amount)
                      t == last.txns[i]
                  IN /\ (~a.nan /\ a.v < 0) =>
                            (t.type = EXPENSE /\ t.amount = Num(-a.v))
                     /\ (~a.nan /\ a.v >= 0) =>
                            (t.type = INCOME /\ t.amount = Num(a.v))

\* a single-column mapping over a sheet with a negative and a positive amount
C11_BothSigns ==
    /\ MapperRan
    /\ ~last.cm.split
    /\ \E i \in 1..Len(last.txns) :
           last.txns[i].type = EXPENSE /\ last.txns[i].amount = Num(1500)
    /\ \E i \in 1..Len(last.txns) :
           last.txns[i].type = INCOME /\ last.txns[i].amount = Num(2000)

\* C12: with split mode on, a row whose credit cell parses to a number other
\* than zero gives a candidate of type INCOME with the credit as amount; every
\* other row gives a candidate of type EXPENSE with the absolute value of the
\* debit cell as amount.
C12_SplitNormalization ==
    (MapperRan /\ last.cm.split) =>
        LET rows == KeptRows(last.rows)
        IN /\ Len(last.txns) = Len(rows)
           /\ \A i \in 1..Len(rows) :
                  LET credit == Parsed(rows[i], last.cm.m.credit)
                      debit == Parsed(rows[i], last.cm.m.debit)
                      t == last.txns[i]
                  IN IF ~credit.nan /\ credit.v # 0
                     THEN t.type = INCOME /\ t.amount = credit
                     ELSE t.type = EXPENSE /\ t.amount = NumAbs(debit)

\* C12, amended: with split mode on, a row whose credit cell parses to a
\* number greater than zero gives a candidate of type INCOME with the credit as
\* amount; every other row (credit empty, zero, negative or not a number)
\* gives a candidate of type EXPENSE with the absolute value of what the debit
\* cell parses to as amount.
C12_SplitNormalizationPositiveCredit ==
    (MapperRan /\ last.cm.split) =>
        LET rows == KeptRows(last.rows)
        IN /\ Len(last.txns) = Len(rows)
           /\ \A i \in 1..Len(rows) :
                  LET credit == Parsed(rows[i], last.cm.m.credit)
                      debit == Parsed(rows[i], last.cm.m.debit)
                      t == last.txns[i]
                  IN IF ~credit.nan /\ credit.v > 0
                     THEN t.type = INCOME /\ t.amount = credit
                     ELSE t.type = EXPENSE /\ t.amount = NumAbs(debit)

\* a split mapping over a sheet with a negative credit, which went to EXPENSE
\* with the debit as amount, and a row without credit
C12_NegativeCredit ==
    /\ MapperRan
    /\ last.cm.split
    /\ \E i \in 1..Len(last.txns) :
           LET r == KeptRows(last.rows)[i]
           IN /\ Parsed(r, last.cm.m.credit) = Num(-2000)
              /\ last.txns[i].type = EXPENSE
              /\ last.txns[i].amount = Num(3000)
    /\ \E i \in 1..Len(last.txns) :
           Cell(KeptRows(last.rows)[i], last.cm.m.credit) = <<>>

\* C13: the mapper builds exactly one candidate for every row after the header
\* that has at least 2 cells, in the order of the rows, and none for a shorter
\* row, whatever the date and amount cells hold; a date cell that is no date
\* gives the current time, and the candidate keeps the row's description.
C13_OneCandidatePerRow ==
    MapperRan =>
        LET rows == KeptRows(last.rows)
        IN /\ Len(last.txns) = Len(rows)
           /\ Cardinality(Ids(last.txns)) = Len(rows)
           /\ \A i \in 1..Len(rows) :
                  LET t == last.txns[i]
                      d == Cell(rows[i], last.cm.m.date)
                  IN /\ Cell(rows[i], last.cm.m.description) # <<>> =>
                            t.description = Cell(rows[i], last.cm.m.description)
                     /\ Len(t.date) = 3
                     /\ (Len(d) = 1 /\ d[1] \in Days) => t.date[1] = d[1]

\* a sheet with a one-cell row ahead of a row whose date cell is empty and
\* whose amount cell holds no digit: the first is skipped, the second mapped
C13_MalformedRows ==
    /\ MapperRan
    /\ \E i \in 1..Len(last.rows) : Len(last.rows[i]) < 2
    /\ \E i \in 1..Len(last.rows) :
           /\ Len(last.rows[i]) >= 2
           /\ Cell(last.rows[i], last.cm.m.date) = <<>>
           /\ Parsed(last.rows[i], last.cm.m.amount).nan
    /\ Len(last.txns) = 1

-----------------------------------------------------------------------------
(* Category resolver *)

RECURSIVE ScanEntries(_)
\* the catalog in scan order: each category, then its subcategories in
\* declaration order; an entry names its category and, for a subcategory, itself
ScanEntries(cats) ==
    IF cats = <<>> THEN <<>>
    ELSE <<[cat |-> Head(cats).id, sub |-> None, name |-> Head(cats).name]>>
         \o [j \in 1..Len(Head(cats).subcategories) |->
                [cat |-> Head(cats).id, sub |-> Head(cats).subcategories[j].id,
                 name |-> Head(cats).subcategories[j].name]]
         \o ScanEntries(Tail(cats))

SameName(a, b) == ToLowerCase(a) = ToLowerCase(b)

\* the candidates of the review, both lists
Reviewed == importCandidates.clean \o importCandidates.duplicates

\* C14: right after the candidates of an import were resolved against the
\* catalog, every candidate whose label equals, ignoring case, the name of a
\* category or of a subcategory has the categoryId of the first such entry in
\* scan order, and its subcategoryId when that entry is a subcategory.
C14_ExactResolution ==
    last.op = "dupcheck" =>
        \A i \in 1..Len(Reviewed) :
            LET c == Reviewed[i]
                entries == ScanEntries(categories)
                hits == {k \in 1..Len(entries) :
                            SameName(entries[k].name, c.importedCategory)}
            IN (c.importedCategory # <<>> /\ hits # {}) =>
                   LET e == entries[CHOOSE k \in hits : \A h \in hits : k <= h]
                   IN /\ c.categoryId = e.cat
                      /\ e.sub # None => c.subcategoryId = e.sub

\* the least number of single-character insertions, deletions and
\* substitutions that turn a into b
EditDistance(a, b) ==
    LET d[i \in 0..Len(a), j \in 0..Len(b)] ==
            IF i = 0 THEN j
            ELSE IF j = 0 THEN i
            ELSE Min2(IF a[i] = b[j] THEN d[i - 1, j - 1] ELSE d[i - 1, j - 1] + 1,
                      Min2(d[i - 1, j] + 1, d[i, j - 1] + 1))
    IN d[Len(a), Len(b)]

\* the distance from a label to each entry of the catalog, in scan order
Distances(label, cats) ==
    [k \in 1..Len(ScanEntries(cats)) |->
        EditDistance(ToLowerCase(label), ToLowerCase(ScanEntries(cats)[k].name))]

EntryId(e) == IF e.sub # None THEN e.sub ELSE e.cat

\* C15: for every label the mapper found no exact match for, the suggestion is
\* the id of the first entry in scan order whose lower-cased name is at the
\* least edit distance from the lower-cased label, when that least distance is
\* at most 3, and there is no suggestion when every distance is above 3.
C15_ClosestWithinThree ==
    (MapperRan /\ last.op = "process") =>
        \A u \in 1..Len(unmappedCategories) :
            LET dist == Distances(unmappedCategories[u].name, categories)
                near == {k \in DOMAIN dist : \A h \in DOMAIN dist : dist[k] <= dist[h]}
                best == CHOOSE k \in near : \A h \in near : k <= h
            IN IF near # {} /\ dist[best] <= 3
               THEN unmappedCategories[u].suggestion =
                        EntryId(ScanEntries(categories)[best])
               ELSE unmappedCategories[u].suggestion = None

\* a label at distance 3 from two entries of the catalog got the first as its
\* suggestion, in a catalog where another label is further than 3 from all
C15_TieAtThree ==
    /\ MapperRan
    /\ last.op = "process"
    /\ \E u \in 1..Len(unmappedCategories) :
           LET dist == Distances(unmappedCategories[u].name, categories)
           IN /\ \E k, h \in DOMAIN dist :
                     /\ k < h
                     /\ dist[k] = 3
                     /\ dist[h] = 3
                     /\ \A g \in DOMAIN dist : dist[g] >= 3
                     /\ unmappedCategories[u].suggestion =
                            EntryId(ScanEntries(categories)[k])

\* handleCategoryMapConfirm ran in this step, on the catalog last.before
ConfirmRan == last.op = "dupcheck" /\ "before" \in DOMAIN last

\* the labels of the mapper left on "create new"
CreateNew ==
    {unmappedCategories[u].name : u \in
        {u \in 1..Len(unmappedCategories) :
            MapGet(categoryMapping, unmappedCategories[u].name) \in {None, "NEW"}}}

\* C16: right after the category mapping is confirmed, the catalog is the
\* catalog of before followed by exactly one new category per label left on
\* "create new", named after the label, of type EXPENSE and without
\* subcategories, and every candidate carrying such a label has the id of the
\* category created for it.
C16_CreateNewBindsLabel ==
    ConfirmRan =>
        LET n == Len(last.before)
            added == SubSeq(categories, n + 1, Len(categories))
        IN /\ SubSeq(categories, 1, n) = last.before
           /\ Len(added) = Cardinality(CreateNew)
           /\ \A l \in CreateNew :
                  /\ Cardinality({k \in 1..Len(added) : added[k].name = l}) = 1
                  /\ LET c == added[CHOOSE k \in 1..Len(added) : added[k].name = l]
                     IN /\ c.type = EXPENSE
                        /\ c.subcategories = <<>>
                        /\ \A i \in 1..Len(Reviewed) :
                               Reviewed[i].importedCategory = l =>
                                   Reviewed[i].categoryId = c.id

-----------------------------------------------------------------------------
(* ReconciliationManager: orders, the date and amount window, linking *)

\* the days new Date() is asked about, in calendar order
Calendar ==
    <<"2024-01-01", "2024-01-02", "2024-01-03", "2024-01-04",
      "2024-01-05", "2024-01-06", "2024-01-07", "2024-01-08",
      "2024-01-09", "2024-01-10", "2024-01-11", "2024-01-12",
      "2024-01-13", "2024-01-14", "2024-01-15", "2024-01-16",
      "2024-01-17", "2024-01-18", "2024-01-19", "2024-01-20",
      "2024-01-21", "2024-01-22", "2024-01-23", "2024-01-24",
      "2024-01-25", "2024-01-26", "2024-01-27", "2024-01-28",
      "2024-01-29", "2024-01-30", "2024-01-31">>

IsCalendarDay(d) == \E i \in 1..Len(Calendar) : Calendar[i] = d
DayNumber(d) == CHOOSE i \in 1..Len(Calendar) : Calendar[i] = d

\* the minutes into the day of a time of day
MinutesOf(time) == IF time = "09:30" THEN 570 ELSE 0

\* new Date(text).getTime(), in minutes: a date-only text is midnight UTC, a
\* text that is no date gives an Invalid Date, whose time is NaN
GetTime(date) ==
    IF date = <<>> \/ ~IsCalendarDay(date[1]) THEN NaN
    ELSE Num(DayNumber(date[1]) * 1440 + (IF Len(date) = 3 THEN MinutesOf(date[3]) ELSE 0))

\* d.setDate(d.getDate() + n): the same time of day, n days away
AddDays(time, n) == IF time.nan THEN NaN ELSE Num(time.v + n * 1440)

\* a <= b on numbers: false when either is NaN
NumLe(a, b) == ~a.nan /\ ~b.nan /\ a.v <= b.v

\* +/- 5 days
WindowDays == 5

\* getSuggestedMatches: the transactions of exactly the order's amount dated
\* between the order's date minus and plus 5 days, as instants
getSuggestedMatches(order, store) ==
    LET orderDate == GetTime(order.date)
        minDate == AddDays(orderDate, -WindowDays)
        maxDate == AddDays(orderDate, WindowDays)
    IN Filter(store, LAMBDA t :
           /\ ~t.amount.nan /\ ~order.amount.nan /\ t.amount = order.amount
           /\ NumLe(minDate, GetTime(t.date))
           /\ NumLe(GetTime(t.date), maxDate))

\* the order built from the idx-th data row, under the default column mapping
\* (date 0, description 1, amount 2; the optional columns unmapped, which the
\* table version of the component stores as empty texts and the window
\* version leaves out)
OrderOfRow(row, idx, stamp) ==
    [id |-> "ord-" \o ToString(idx) \o "-" \o ToString(stamp),
     date |-> Cell(row, 0),
     description |-> Cell(row, 1),
     amount |-> NumAbs(ParseFloat(AmountText(Cell(row, 2)))),
     orderStatus |-> <<>>, paymentAccount |-> <<>>, category |-> <<>>,
     itemDetails |-> <<>>,
     matchedTransactionId |-> None]

RECURSIVE OrderRows(_, _, _)
\* processOrders: rows of fewer than 2 cells, without a date or without a
\* positive amount give no order
OrderRows(rows, idx, stamp) ==
    IF rows = <<>> THEN <<>>
    ELSE LET o == OrderOfRow(Head(rows), idx, stamp)
         IN (IF Len(Head(rows)) >= 2 /\ o.date # <<>> /\ NumGt(o.amount, Num(0))
             THEN <<o>> ELSE <<>>)
            \o OrderRows(Tail(rows), idx + 1, stamp)

\* const activeOrders = orders.filter(o => !o.matchedTransactionId)
activeOrders == Filter(orders, LAMBDA o : o.matchedTransactionId = None)

\* "Matched Order: "
MatchedOrderText ==
    <<"M", "a", "t", "c", "h", "e", "d", " ", "O", "r", "d", "e", "r">>

\* `Matched Order: ${order.description} (${order.date})`
NewNote(order) ==
    MatchedOrderText \o <<":", " ">> \o order.description \o <<" ", "(">>
        \o order.date \o <<")">>

\* currentNotes ? `${currentNotes} | ${newNote}` : newNote
AppendNote(currentNotes, newNote) ==
    IF currentNotes # <<>> THEN currentNotes \o <<" ", "|", " ">> \o newNote
    ELSE newNote

\* t.merchant || order.description.substring(0, 30)
MerchantOr(t, order) ==
    IF t.merchant # <<>> THEN t.merchant
    ELSE SubSeq(order.description, 1, Min2(30, Len(order.description)))

\* setOrders(prev => prev.map(o => o.id === orderId ? {...o, matchedTransactionId} : o))
StampOrder(prev, orderId, transactionId) ==
    Map(prev, LAMBDA o : IF o.id = orderId
                         THEN [o EXCEPT !.matchedTransactionId = transactionId]
                         ELSE o)

\* the topmost modal of the component: the match review is later in the
\* document than the order mapper
ReconTop == IF "matchModal" \in reconModal THEN "matchModal"
            ELSE IF "orderMapper" \in reconModal THEN "orderMapper"
            ELSE None

\* a stored transaction as the reconciliation view reads it
BankTransaction(id, date, description, amount) ==
    [id |-> id, date |-> date, description |-> description, amount |-> amount,
     type |-> EXPENSE, categoryId |-> None, subcategoryId |-> None,
     account |-> <<"B", "k">>, comments |-> <<>>, importedCategory |-> <<>>,
     merchant |-> <<>>]

\* order sheets: a header row, then date, description, total
OrderHdr == <<<<"h">>, <<"h">>, <<"h">>>>
OrdA == <<<<"2024-01-10">>, <<"B", "o", "o", "k">>, <<"-", "1", ".", "5">>>>
OrdB == <<<<"2024-01-10">>, <<"B", "o", "o", "k">>, <<"$", "1", ".", "5">>>>
OrdC == <<<<>>, <<"P", "e", "n">>, <<"2">>>>
OrdD == <<<<"x">>, <<"P", "e", "n">>, <<"2">>>>
OrdE == <<<<"2024-01-10">>, <<>>, <<"2">>>>
OrdF == <<<<"2024-01-10">>, <<"P", "e", "n">>, <<"0">>>>
OrderGrids == {<<OrderHdr, OrdA, OrdB>>, <<OrderHdr, OrdC, OrdD, OrdE, OrdF>>}

\* handleFileSelect of the component: the sheet is kept and the mapper opens
OrderFileSelect(grid) ==
    /\ ReconTop = None
    /\ allRows' = grid
    /\ reconModal' = reconModal \cup {"orderMapper"}
    /\ last' = [op |-> "orderFile"]
    /\ UNCHANGED <<transactions, categories, rules, ruleSuggestion, allImportRows,
                   importCandidates, duplicatesToKeep, unmappedCategories,
                   categoryMapping, modal, selectedIds, pending, nextId, orders,
                   matchSuggestions, linkingOrderId>>
    /\ UNCHANGED activeRule
    /\ UNCHANGED syncVars

\* processOrders
processOrders ==
    /\ ReconTop = "orderMapper"
    /\ nextId <= MaxStamp
    /\ orders' = OrderRows(Tail(allRows), 0, nextId)
    /\ reconModal' = reconModal \ {"orderMapper"}
    /\ nextId' = nextId + 1
    /\ last' = [op |-> "orders"]
    /\ UNCHANGED <<transactions, categories, rules, ruleSuggestion, allImportRows,
                   importCandidates, duplicatesToKeep, unmappedCategories,
                   categoryMapping, modal, selectedIds, pending, matchSuggestions,
                   linkingOrderId, allRows>>
    /\ UNCHANGED activeRule
    /\ UNCHANGED syncVars

\* the Cancel button of the order mapper
CancelOrderMapper ==
    /\ ReconTop = "orderMapper"
    /\ reconModal' = reconModal \ {"orderMapper"}
    /\ last' = [op |-> "orderCancel"]
    /\ UNCHANGED <<transactions, categories, rules, ruleSuggestion, allImportRows,
                   importCandidates, duplicatesToKeep, unmappedCategories,
                   categoryMapping, modal, selectedIds, pending, nextId, orders,
                   matchSuggestions, linkingOrderId, allRows>>
    /\ UNCHANGED activeRule
    /\ UNCHANGED syncVars

\* the window version of the component: a click on a suggested bank match
\* runs its linkTransaction, which appends the note whatever the comments hold
linkSuggestedMatch(orderId, transactionId) ==
    /\ ReconTop = None
    /\ \E i \in 1..Len(activeOrders) :
           /\ activeOrders[i].id = orderId
           /\ transactionId \in Ids(getSuggestedMatches(activeOrders[i], transactions))
    /\ LET order == Find(orders, LAMBDA o : o.id = orderId)
       IN transactions' =
              Map(transactions, LAMBDA t :
                  IF t.id = transactionId
                  THEN [t EXCEPT !.comments = AppendNote(t.comments, NewNote(order)),
                                 !.merchant = MerchantOr(t, order)]
                  ELSE t)
    /\ orders' = StampOrder(orders, orderId, transactionId)
    /\ last' = [op |-> "linkSuggested"]
    /\ UNCHANGED <<categories, rules, ruleSuggestion, allImportRows,
                   importCandidates, duplicatesToKeep, unmappedCategories,
                   categoryMapping, modal, selectedIds, pending, nextId,
                   matchSuggestions, linkingOrderId, allRows, reconModal>>
    /\ UNCHANGED activeRule
    /\ UNCHANGED syncVars

\* bank transactions around the order date 2024-01-10
WindowStore ==
    <<BankTransaction("w1", Iso("2024-01-05", "09:30"), <<"a">>, Num(1500)),
      BankTransaction("w2", Iso("2024-01-15", "09:30"), <<"b">>, Num(1500)),
      BankTransaction("w3", Iso("2024-01-16", "00:00"), <<"c">>, Num(1500)),
      BankTransaction("w4", Iso("2024-01-04", "09:30"), <<"d">>, Num(1500)),
      BankTransaction("w5", Iso("2024-01-15", "00:00"), <<"e">>, Num(1500)),
      BankTransaction("w6", Iso("2024-01-10", "00:00"), <<"f">>, Num(1505)),
      BankTransaction("w7", <<"2024-01-10">>, <<"g">>, Num(1500))>>

InitWindow ==
    /\ transactions \in {WindowStore, SubSeq(WindowStore, 1, 6)}
    /\ categories = Catalog0
    /\ rules = <<>>
    /\ ruleSuggestion = <<>>
    /\ allImportRows = <<>>
    /\ importCandidates = EmptyCandidates
    /\ duplicatesToKeep = {}
    /\ unmappedCategories = <<>>
    /\ categoryMapping = <<>>
    /\ modal = {}
    /\ selectedIds = <<>>
    /\ pending = {}
    /\ nextId = 1
    /\ last = [op |-> "init"]
    /\ ReconInit
    /\ activeRule = <<>>
    /\ SyncIdle

NextWindow ==
    \/ \E grid \in OrderGrids : OrderFileSelect(grid)
    \/ processOrders
    \/ CancelOrderMapper
    \/ \E o \in Ids(orders), t \in Ids(transactions) : linkSuggestedMatch(o, t)

SpecWindow == InitWindow /\ [][NextWindow]_vars

-----------------------------------------------------------------------------
(* Reconciliation window *)

\* the days from the order's calendar date to the transaction's
DaysApart(o, t) == DayNumber(CalendarDay(t.date)) - DayNumber(CalendarDay(o.date))

InsideWindow(o, t) == DaysApart(o, t) >= -5 /\ DaysApart(o, t) <= 5

\* the transaction is among the candidate links shown for the order
Offered(o, t) == t.id \in Ids(getSuggestedMatches(o, transactions))

\* some order is linked to the transaction
Linked(t) == \E k \in 1..Len(orders) : orders[k].matchedTransactionId = t.id

\* the orders the window is asked about: unmatched, dated by a calendar day
DatedOrders == Filter(activeOrders, LAMBDA o : IsCalendarDay(CalendarDay(o.date)))

\* C17: for an unmatched order and a transaction of the same amount, the
\* transaction is offered as a candidate iff its calendar date is at most 5
\* days before or after the order's calendar date, whatever the time of day.
C17_DateWindow ==
    \A i \in 1..Len(DatedOrders), j \in 1..Len(transactions) :
        LET o == DatedOrders[i]
            t == transactions[j]
        IN (t.amount = o.amount /\ ~t.amount.nan) =>
               (Offered(o, t) <=> InsideWindow(o, t))

\* C18: for an unmatched order, the candidates offered are exactly the
\* transactions inside the date window that no order is linked to and whose
\* amount is at most 0.01 away from the order's.
C18_AmountFilter ==
    \A i \in 1..Len(DatedOrders), j \in 1..Len(transactions) :
        LET o == DatedOrders[i]
            t == transactions[j]
        IN InsideWindow(o, t) =>
               (Offered(o, t) <=>
                    /\ ~Linked(t)
                    /\ ~t.amount.nan
                    /\ t.amount.v - o.amount.v <= Cent
                    /\ o.amount.v - t.amount.v <= Cent)

-----------------------------------------------------------------------------
(* ReconciliationManager, table version: manual linking and AI suggestions *)

\* a variant that appends the note whatever the comments hold
finalNotesAlways(currentNotes, order) == AppendNote(currentNotes, NewNote(order))

\* currentNotes.includes(order.description) ? currentNotes : (... newNote)
finalNotes(currentNotes, order) ==
    IF Includes(currentNotes, order.description) THEN currentNotes
    ELSE AppendNote(currentNotes, NewNote(order))

\* what linkTransaction makes of the store and of the orders
linked(store, ords, order, transactionId) ==
    [transactions |->
         Map(store, LAMBDA t :
             IF t.id = transactionId
             THEN [t EXCEPT !.comments = finalNotes(t.comments, order),
                            !.merchant = MerchantOr(t, order)]
             ELSE t),
     orders |-> StampOrder(ords, order.id, transactionId)]

\* the Link / Cancel button of an order row that is not linked yet
setLinkingOrderId(orderId) ==
    /\ ReconTop = None
    /\ orderId \in Ids(activeOrders)
    /\ linkingOrderId' = IF linkingOrderId = orderId THEN None ELSE orderId
    /\ last' = [op |-> "linking"]
    /\ UNCHANGED <<transactions, categories, rules, ruleSuggestion, allImportRows,
                   importCandidates, duplicatesToKeep, unmappedCategories,
                   categoryMapping, modal, selectedIds, pending, nextId, orders,
                   matchSuggestions, allRows, reconModal>>
    /\ UNCHANGED activeRule
    /\ UNCHANGED syncVars

\* a click on a row of the bank table while an order is being linked:
\* linkTransaction(linkingOrderId, t.id); an id that names no order returns
\* at once
linkTransaction(transactionId) ==
    /\ ReconTop = None
    /\ linkingOrderId # None
    /\ transactionId \in Ids(transactions)
    /\ IF Some(orders, LAMBDA o : o.id = linkingOrderId)
       THEN LET order == Find(orders, LAMBDA o : o.id = linkingOrderId)
                r == linked(transactions, orders, order, transactionId)
            IN /\ transactions' = r.transactions
               /\ orders' = r.orders
               /\ linkingOrderId' = None
               /\ last' = [op |-> "link", order |-> order, tid |-> transactionId,
                           before |-> transactions]
       ELSE /\ last' = [op |-> "linkNoOrder"]
            /\ UNCHANGED <<transactions, orders, linkingOrderId>>
    /\ UNCHANGED <<categories, rules, ruleSuggestion, allImportRows,
                   importCandidates, duplicatesToKeep, unmappedCategories,
                   categoryMapping, modal, selectedIds, pending, nextId,
                   matchSuggestions, allRows, reconModal>>
    /\ UNCHANGED activeRule
    /\ UNCHANGED syncVars

\* runSmartMatch, up to the await: the call takes this render's transactions
\* and orders; the button is disabled while isMatching
runSmartMatch ==
    /\ ReconTop = None
    /\ Pending("match") = {}
    /\ pending' = pending \cup {[kind |-> "match", store |-> transactions,
                                 orders |-> orders, failed |-> FALSE]}
    /\ last' = [op |-> "smartMatch"]
    /\ UNCHANGED <<transactions, categories, rules, ruleSuggestion, allImportRows,
                   importCandidates, duplicatesToKeep, unmappedCategories,
                   categoryMapping, modal, selectedIds, nextId, orders,
                   matchSuggestions, linkingOrderId, allRows, reconModal>>
    /\ UNCHANGED activeRule
    /\ UNCHANGED syncVars

\* a suggestion as parsed from the service's answer; ref tells the objects of
\* one answer apart (matches are removed by identity)
Suggestion(ref, type, transactionId, orderIds) ==
    [ref |-> ref, type |-> type, transactionId |-> transactionId,
     orderIds |-> orderIds]

\* suggestReconciliationMatches: nothing is asked, and [] returned, when no
\* transaction without "Matched Order" in its comments or no unmatched order
\* is left; otherwise the answer is whatever the service makes of them
Suggestions(p) ==
    LET unmatchedTxns == Ids(Filter(p.store, LAMBDA t :
                                 ~Includes(t.comments, MatchedOrderText)))
        unmatchedOrders == Filter(p.orders, LAMBDA o : o.matchedTransactionId = None)
        orderIds == Map(unmatchedOrders, LAMBDA o : o.id)
    IN IF unmatchedTxns = {} \/ unmatchedOrders = <<>> THEN {<<>>}
       ELSE {<<>>}
            \cup {<<Suggestion(1, "EXACT", t, <<o>>)>> :
                      t \in unmatchedTxns, o \in Range(orderIds)}
            \cup {<<Suggestion(1, "BUNDLE", t, orderIds)>> : t \in unmatchedTxns}
            \cup {<<Suggestion(1, "EXACT", t, <<Head(orderIds)>>),
                    Suggestion(2, "SEMANTIC", t, <<Head(orderIds)>>)>> :
                      t \in unmatchedTxns}

\* runSmartMatch after the await
SmartMatchDone(p, suggestions) ==
    /\ p \in Pending("match")
    /\ ~p.failed
    /\ matchSuggestions' = suggestions
    /\ reconModal' = IF suggestions # <<>> THEN reconModal \cup {"matchModal"}
                     ELSE reconModal
    /\ pending' = pending \ {p}
    /\ last' = [op |-> "suggestions"]
    /\ UNCHANGED <<transactions, categories, rules, ruleSuggestion, allImportRows,
                   importCandidates, duplicatesToKeep, unmappedCategories,
                   categoryMapping, modal, selectedIds, nextId, orders,
                   linkingOrderId, allRows>>
    /\ UNCHANGED activeRule
    /\ UNCHANGED syncVars

\* runSmartMatch when the awaited call rejects: nothing catches it, and
\* isMatching stays set
SmartMatchFailed(p) ==
    /\ p \in Pending("match")
    /\ ~p.failed
    /\ pending' = (pending \ {p}) \cup {[p EXCEPT !.failed = TRUE]}
    /\ last' = [op |-> "smartMatchFailed"]
    /\ UNCHANGED <<transactions, categories, rules, ruleSuggestion, allImportRows,
                   importCandidates, duplicatesToKeep, unmappedCategories,
                   categoryMapping, modal, selectedIds, nextId, orders,
                   matchSuggestions, linkingOrderId, allRows, reconModal>>
    /\ UNCHANGED activeRule
    /\ UNCHANGED syncVars

RECURSIVE Join(_)
\* descriptions.join(", ")
Join(texts) ==
    IF texts = <<>> THEN <<>>
    ELSE IF Len(texts) = 1 THEN texts[1]
    ELSE texts[1] \o <<",", " ">> \o Join(Tail(texts))

\* `[AI ${matchTypeLabel}]: ${orderDescriptions}`
AiNote(m, ords) ==
    LET referenced == Filter(ords, LAMBDA o : o.id \in Range(m.orderIds))
        label == IF m.type = "BUNDLE"
                 THEN <<"B", "u", "n", "d", "l", "e", "d", " ", "O", "r", "d", "e",
                        "r", "s">>
                 ELSE MatchedOrderText
    IN <<"[", "A", "I", " ">> \o label \o <<"]", ":", " ">>
           \o Join(Map(referenced, LAMBDA o : o.description))

\* the suggestions the review modal shows: those whose transaction is stored
Shown == Filter(matchSuggestions, LAMBDA m : m.transactionId \in Ids(transactions))

\* acceptMatch
acceptMatch(m) ==
    /\ ReconTop = "matchModal"
    /\ m \in Range(Shown)
    /\ transactions' =
           Map(transactions, LAMBDA t :
               IF t.id = m.transactionId
               THEN [t EXCEPT !.comments = AppendNote(t.comments, AiNote(m, orders))]
               ELSE t)
    /\ orders' = Map(orders, LAMBDA o :
                     IF o.id \in Range(m.orderIds)
                     THEN [o EXCEPT !.matchedTransactionId = m.transactionId]
                     ELSE o)
    /\ matchSuggestions' = Filter(matchSuggestions, LAMBDA match : match.ref # m.ref)
    /\ last' = [op |-> "accept", m |-> m, before |-> transactions,
                ordersBefore |-> orders, pendingBefore |-> matchSuggestions]
    /\ UNCHANGED <<categories, rules, ruleSuggestion, allImportRows,
                   importCandidates, duplicatesToKeep, unmappedCategories,
                   categoryMapping, modal, selectedIds, pending, nextId,
                   linkingOrderId, allRows, reconModal>>
    /\ UNCHANGED activeRule
    /\ UNCHANGED syncVars

\* the Ignore button of a suggestion
ignoreMatch(m) ==
    /\ ReconTop = "matchModal"
    /\ m \in Range(Shown)
    /\ matchSuggestions' = Filter(matchSuggestions, LAMBDA pm : pm.ref # m.ref)
    /\ last' = [op |-> "ignore"]
    /\ UNCHANGED <<transactions, categories, rules, ruleSuggestion, allImportRows,
                   importCandidates, duplicatesToKeep, unmappedCategories,
                   categoryMapping, modal, selectedIds, pending, nextId, orders,
                   linkingOrderId, allRows, reconModal>>
    /\ UNCHANGED activeRule
    /\ UNCHANGED syncVars

\* the Close button of the review modal
CloseMatchModal ==
    /\ ReconTop = "matchModal"
    /\ reconModal' = reconModal \ {"matchModal"}
    /\ last' = [op |-> "closeMatches"]
    /\ UNCHANGED <<transactions, categories, rules, ruleSuggestion, allImportRows,
                   importCandidates, duplicatesToKeep, unmappedCategories,
                   categoryMapping, modal, selectedIds, pending, nextId, orders,
                   matchSuggestions, linkingOrderId, allRows>>
    /\ UNCHANGED activeRule
    /\ UNCHANGED syncVars

\* the bank transactions the table version starts from; the second carries
\* the note of a link made in an earlier session
ReconStore ==
    <<BankTransaction("r1", Iso("2024-01-10", "09:30"), <<"a">>, Num(1500)),
      [BankTransaction("r2", <<"2024-01-10">>, <<"b">>, Num(3000)) EXCEPT
          !.comments = MatchedOrderText \o <<":", " ">> \o <<"P", "e", "n">>
                           \o <<" ", "(">> \o <<"2024-01-09">> \o <<")">>]>>

\* the order sheet uploaded to the table version
ReconcileGrids == {<<OrderHdr, OrdA, OrdB>>}

InitReconcile ==
    /\ transactions = ReconStore
    /\ categories = Catalog0
    /\ rules = <<>>
    /\ ruleSuggestion = <<>>
    /\ allImportRows = <<>>
    /\ importCandidates = EmptyCandidates
    /\ duplicatesToKeep = {}
    /\ unmappedCategories = <<>>
    /\ categoryMapping = <<>>
    /\ modal = {}
    /\ selectedIds = <<>>
    /\ pending = {}
    /\ nextId = 1
    /\ last = [op |-> "init"]
    /\ ReconInit
    /\ activeRule = <<>>
    /\ SyncIdle

NextReconcile ==
    \/ \E grid \in ReconcileGrids : OrderFileSelect(grid)
    \/ processOrders
    \/ CancelOrderMapper
    \/ \E o \in Ids(orders) : setLinkingOrderId(o)
    \/ \E t \in Ids(transactions) : linkTransaction(t)
    \/ runSmartMatch
    \/ \E p \in pending : \E suggestions \in Suggestions(p) : SmartMatchDone(p, suggestions)
    \/ \E p \in pending : SmartMatchFailed(p)
    \/ \E m \in Range(matchSuggestions) : acceptMatch(m)
    \/ \E m \in Range(matchSuggestions) : ignoreMatch(m)
    \/ CloseMatchModal

SpecReconcile == InitReconcile /\ [][NextReconcile]_vars

-----------------------------------------------------------------------------
(* Linking *)

\* the transaction of that id in a store
ById(store, id) == Find(store, LAMBDA t : t.id = id)

RECURSIVE LinkEach(_, _, _, _)
\* linking by hand, one after the other, each order of the list that exists
LinkEach(store, ords, orderIds, transactionId) ==
    IF orderIds = <<>> THEN [transactions |-> store, orders |-> ords]
    ELSE IF ~Some(ords, LAMBDA o : o.id = Head(orderIds))
    THEN LinkEach(store, ords, Tail(orderIds), transactionId)
    ELSE LET r == linked(store, ords, ById(ords, Head(orderIds)), transactionId)
         IN LinkEach(r.transactions, r.orders, Tail(orderIds), transactionId)

\* C20: right after a suggestion was accepted, the transactions and the orders
\* are what linking by hand each order the suggestion names to the suggestion's
\* transaction would have made of them, and the pending list is the list of
\* before without the accepted suggestion.
C20_AcceptIsLinking ==
    last.op = "accept" =>
        LET r == LinkEach(last.before, last.ordersBefore, last.m.orderIds,
                          last.m.transactionId)
        IN /\ transactions = r.transactions
           /\ orders = r.orders
           /\ matchSuggestions =
                  Filter(last.pendingBefore, LAMBDA pm : pm.ref # last.m.ref)

\* C21: right after a suggestion was accepted, every order that was matched
\* before the accept is matched to the same transaction as before.
C21_AcceptKeepsMatched ==
    last.op = "accept" =>
        \A i \in 1..Len(last.ordersBefore) :
            last.ordersBefore[i].matchedTransactionId # None =>
                orders[i].matchedTransactionId
                    = last.ordersBefore[i].matchedTransactionId

-----------------------------------------------------------------------------
(* Cancelling an import *)

\* an import is in progress: one of its three modals is showing
Importing == modal \cap {"mapper", "categoryMapper", "duplicateReview"} # {}

\* C22: from the moment an import began to the moment it is cancelled, the
\* store and the catalog stay as they were: no step taken while an import is
\* in progress, other than finalizeImport, changes either of them.
C22_CancelLeavesAll ==
    [][(Importing /\ last'.op # "finalize") =>
           (transactions' = transactions /\ categories' = categories)]_vars

-----------------------------------------------------------------------------
(* The AI handlers *)

\* C23: right after an AI handler (categorization, merchant normalization,
\* anomaly detection) has applied an answer that is empty, as the answer of a
\* failed call is, every transaction of the store is as it was just before.
C23_EmptyAnswerChangesNothing ==
    (last.op \in {"ai", "merchants", "anomalies"} /\ last.answer = <<>>) =>
        transactions = last.before

-----------------------------------------------------------------------------
(* Rule suggestions *)

\* the text is made of digits only
PurelyNumeric(p) == p # <<>> /\ \A i \in 1..Len(p) : IsDigit(p[i])

\* the prefixes the description of transaction t shares, case aside, with the
\* descriptions of the other transactions of category c, spaces at the ends
\* dropped
SharedPrefixes(store, t, c) ==
    {getCommonPrefix(t.description, o.description) :
         o \in {x \in Range(store) : x.id # t.id /\ x.categoryId = c}}

\* an active rule aimed at category c has a condition whose value is the
\* prefix, case aside
TestedByActiveRule(rs, c, p) ==
    \E r \in Range(rs) :
        /\ r.isActive
        /\ r.targetCategoryId = c
        /\ \E k \in Range(r.conditions) : ToLowerCase(k.value) = ToLowerCase(p)

\* C24: a step that categorizes transaction T by hand into category C leaves
\* a suggestion for a prefix of at least 4 characters, not purely numeric,
\* that T's description shares with another transaction of C and that no
\* active rule aimed at C tests, aimed at the category and subcategory just
\* assigned, when there is such a prefix; it leaves the suggestion as it
\* was when there is none.
C24_SuggestionTrigger ==
    [][(last'.op = "categorize" /\ last'.ids # {}) =>
           LET id == CHOOSE x \in last'.ids : TRUE
               T == ById(transactions, id)
               now == ById(transactions', id)
               usable == {p \in SharedPrefixes(transactions, T, now.categoryId) :
                              /\ Len(p) >= 4
                              /\ ~PurelyNumeric(p)
                              /\ ~TestedByActiveRule(rules, now.categoryId, p)}
           IN IF usable # {}
              THEN ruleSuggestion' \in
                       {<<[condition |-> p, categoryId |-> now.categoryId,
                           subcategoryId |-> now.subcategoryId]>> : p \in usable}
              ELSE ruleSuggestion' = ruleSuggestion]_vars

\* C25: the rule list changes only in a step of saveRule or deleteRule, and
\* a step that accepts or ignores a suggestion changes neither the rule list
\* nor any transaction.
C25_SuggestionsChangeNothing ==
    [][/\ rules' # rules => last'.op \in {"saveRule", "deleteRule"}
       /\ last'.op \in {"acceptSuggestion", "ignoreSuggestion"} =>
              (rules' = rules /\ transactions' = transactions)]_vars

\* a suggestion was accepted: the editor holds the suggested rule, and the
\* rule list holds no rule of that name
C25_AcceptedNotSaved ==
    /\ last.op = "acceptSuggestion"
    /\ activeRule = <<SuggestedDraft(last.suggestion)>>
    /\ \A i \in 1..Len(rules) : rules[i].name # activeRule[1].name

-----------------------------------------------------------------------------
(* App: loading, auto-save; the server: bootstrap and syncCollection.      *)
(* The store is taken to be reachable and to accept every commit.          *)

\* the client's collection of that name
Collection(type) ==
    CASE type = "categories" -> categories
      [] type = "transactions" -> transactions
      [] type = "rules" -> rules

\* document ids in the order the store lists them
IdOrder == <<"1", "2", "cat-9", "p1", "p2">>

IdRank(id) == CHOOSE k \in 1..Len(IdOrder) : IdOrder[k] = id

RECURSIVE InIdOrder(_)
\* the ids of a set, in the order the store lists them
InIdOrder(S) ==
    IF S = {} THEN <<>>
    ELSE LET first == CHOOSE x \in S : \A y \in S : IdRank(x) <= IdRank(y)
         IN <<first>> \o InIdOrder(S \ {first})

\* snap.docs.map(d => d.data())
getData(docs) == Map(InIdOrder(DOMAIN docs), LAMBDA id : docs[id])

\* the documents a list of items makes, keyed by id
AsDocs(items) ==
    [id \in Ids(items) |-> FindLast(items, LAMBDA x : x.id = id)]

\* batchSize, scaled down from 450
batchSize == 2

RECURSIVE Chunks(_)
\* the batches: a batch is closed as soon as it holds batchSize operations,
\* and what is left at the end makes the last one
Chunks(ops) ==
    IF ops = <<>> THEN <<>>
    ELSE IF Len(ops) <= batchSize THEN <<ops>>
    ELSE <<SubSeq(ops, 1, batchSize)>> \o Chunks(SubSeq(ops, batchSize + 1, Len(ops)))

\* a variant that writes the posted items and deletes nothing
SyncOpsUpsertOnly(newItems, existingIds) ==
    Map(newItems, LAMBDA item : [op |-> "set", id |-> item.id, doc |-> item])

\* the operations of syncCollection: a set for every posted item, then a
\* delete for every existing id that no posted item has
SyncOps(newItems, existingIds) ==
    Map(newItems, LAMBDA item : [op |-> "set", id |-> item.id, doc |-> item])
        \o Map(InIdOrder(existingIds \ Ids(newItems)),
               LAMBDA id : [op |-> "delete", id |-> id])

RECURSIVE Commit(_, _)
\* batch.commit(): the operations of a batch take effect together, in order
Commit(docs, ops) ==
    IF ops = <<>> THEN docs
    ELSE LET o == Head(ops)
             next == IF o.op = "set"
                     THEN [id \in DOMAIN docs \cup {o.id} |->
                              IF id = o.id THEN o.doc ELSE docs[id]]
                     ELSE [id \in DOMAIN docs \ {o.id} |-> docs[id]]
         IN Commit(next, Tail(ops))

\* every auto-save effect has run on the collections as they are
EffectsDone == \A t \in Types : Collection(t) = watched[t]

\* the user can act: the loading screen is gone and the effects have run
Ready == boot # "fetching" /\ EffectsDone

\* fetchData when /api/bootstrap answers: the three collections are set, the
\* default catalog standing in for an empty one, and the timer is started
BootstrapLoaded ==
    /\ boot = "fetching"
    /\ LET data == [t \in Types |-> getData(db[t])]
       IN /\ categories' = IF Len(data.categories) > 0 THEN data.categories
                           ELSE Catalog0
          /\ transactions' = data.transactions
          /\ rules' = data.rules
          /\ carried' = [t \in Types |->
                            IF t = "categories" /\ data.categories = <<>>
                            THEN Catalog0 ELSE data[t]]
    /\ boot' = "loaded"
    /\ loadTimer' = TRUE
    /\ last' = [op |-> "bootstrap"]
    /\ UNCHANGED <<ruleSuggestion, allImportRows, importCandidates, duplicatesToKeep,
                   unmappedCategories, categoryMapping, modal, selectedIds, pending,
                   nextId, activeRule, isLoadedRef, watched, saveTimeoutRef,
                   inflight, db>>
    /\ UNCHANGED reconVars

\* fetchData when the answer is an error or the fetch throws: the default
\* catalog, no transaction, no rule; the timer is started all the same
BootstrapFailed ==
    /\ boot = "fetching"
    /\ categories' = Catalog0
    /\ carried' = [carried EXCEPT !["categories"] = Catalog0]
    /\ boot' = "failed"
    /\ loadTimer' = TRUE
    /\ last' = [op |-> "bootstrapFailed"]
    /\ UNCHANGED <<transactions, rules, ruleSuggestion, allImportRows,
                   importCandidates, duplicatesToKeep, unmappedCategories,
                   categoryMapping, modal, selectedIds, pending, nextId, activeRule,
                   isLoadedRef, watched, saveTimeoutRef, inflight, db>>
    /\ UNCHANGED reconVars

\* the timer of fetchData, 500 ms after the answer
LoadTimerFires ==
    /\ loadTimer
    /\ EffectsDone
    /\ isLoadedRef' = TRUE
    /\ loadTimer' = FALSE
    /\ last' = [op |-> "isLoaded"]
    /\ UNCHANGED <<transactions, categories, rules, ruleSuggestion, allImportRows,
                   importCandidates, duplicatesToKeep, unmappedCategories,
                   categoryMapping, modal, selectedIds, pending, nextId, activeRule,
                   boot, watched, saveTimeoutRef, inflight, db, carried>>
    /\ UNCHANGED reconVars

\* an auto-save effect, run after the render in which its collection changed,
\* and scheduleSave: nothing before isLoadedRef is set, else the pending timer
\* of the collection is replaced by one holding this state
scheduleSave(type) ==
    /\ Collection(type) # watched[type]
    /\ watched' = [watched EXCEPT ![type] = Collection(type)]
    /\ saveTimeoutRef' = IF isLoadedRef
                         THEN [saveTimeoutRef EXCEPT ![type] = <<Collection(type)>>]
                         ELSE saveTimeoutRef
    /\ last' = [op |-> "scheduleSave", type |-> type]
    /\ UNCHANGED <<transactions, categories, rules, ruleSuggestion, allImportRows,
                   importCandidates, duplicatesToKeep, unmappedCategories,
                   categoryMapping, modal, selectedIds, pending, nextId, activeRule,
                   boot, loadTimer, isLoadedRef, inflight, db, carried>>
    /\ UNCHANGED reconVars

\* the debounce timer of a collection fires, 1 s after the last change: the
\* state it holds is posted to /api/sync/<type>
PostSync(type) ==
    /\ saveTimeoutRef[type] # <<>>
    /\ EffectsDone
    /\ LET others == \E k \in 1..Len(inflight) : inflight[k].type = type
       IN inflight' =
              Append([k \in 1..Len(inflight) |->
                         IF inflight[k].type = type
                         THEN [inflight[k] EXCEPT !.overlapped = TRUE]
                         ELSE inflight[k]],
                     [type |-> type, data |-> saveTimeoutRef[type][1],
                      phase |-> "posted", batches |-> <<>>, todo |-> {},
                      overlapped |-> others])
    /\ saveTimeoutRef' = [saveTimeoutRef EXCEPT ![type] = <<>>]
    /\ carried' = [carried EXCEPT ![type] = saveTimeoutRef[type][1]]
    /\ last' = [op |-> "post", type |-> type]
    /\ UNCHANGED <<transactions, categories, rules, ruleSuggestion, allImportRows,
                   importCandidates, duplicatesToKeep, unmappedCategories,
                   categoryMapping, modal, selectedIds, pending, nextId, activeRule,
                   boot, loadTimer, isLoadedRef, watched, db>>
    /\ UNCHANGED reconVars

\* the sequence without its k-th element
Without(seq, k) == SubSeq(seq, 1, k - 1) \o SubSeq(seq, k + 1, Len(seq))

\* syncCollection up to Promise.all: the ids of the collection are read and
\* the batches are built; with nothing to write the request is answered
syncCollection(k) ==
    /\ k \in 1..Len(inflight)
    /\ inflight[k].phase = "posted"
    /\ LET r == inflight[k]
           batches == Chunks(SyncOps(r.data, DOMAIN db[r.type]))
       IN IF batches = <<>>
          THEN /\ inflight' = Without(inflight, k)
               /\ last' = [op |-> "synced", type |-> r.type, data |-> r.data,
                           overlapped |-> r.overlapped, batches |-> 0]
          ELSE /\ inflight' = [inflight EXCEPT ![k] =
                                  [r EXCEPT !.phase = "writing", !.batches = batches,
                                            !.todo = 1..Len(batches)]]
               /\ last' = [op |-> "read", type |-> r.type]
    /\ UNCHANGED <<transactions, categories, rules, ruleSuggestion, allImportRows,
                   importCandidates, duplicatesToKeep, unmappedCategories,
                   categoryMapping, modal, selectedIds, pending, nextId, activeRule,
                   boot, loadTimer, isLoadedRef, watched, saveTimeoutRef, db,
                   carried>>
    /\ UNCHANGED reconVars

\* one of the batches of a request commits; after the last one the request
\* is answered
CommitBatch(k, b) ==
    /\ k \in 1..Len(inflight)
    /\ inflight[k].phase = "writing"
    /\ b \in inflight[k].todo
    /\ LET r == inflight[k]
       IN /\ db' = [db EXCEPT ![r.type] = Commit(@, r.batches[b])]
          /\ IF r.todo = {b}
             THEN /\ inflight' = Without(inflight, k)
                  /\ last' = [op |-> "synced", type |-> r.type, data |-> r.data,
                              overlapped |-> r.overlapped,
                              batches |-> Len(r.batches)]
             ELSE /\ inflight' = [inflight EXCEPT ![k].todo = @ \ {b}]
                  /\ last' = [op |-> "commit", type |-> r.type]
    /\ UNCHANGED <<transactions, categories, rules, ruleSuggestion, allImportRows,
                   importCandidates, duplicatesToKeep, unmappedCategories,
                   categoryMapping, modal, selectedIds, pending, nextId, activeRule,
                   boot, loadTimer, isLoadedRef, watched, saveTimeoutRef, carried>>
    /\ UNCHANGED reconVars

\* what the store holds when the page is opened: the default categories, a
\* category and two transactions of an earlier session
Persisted ==
    [categories |-> Append(Catalog0,
                           [id |-> "cat-9", name |-> <<"C", "a", "r">>,
                            type |-> EXPENSE, subcategories |-> <<>>]),
     transactions |-> <<StoredTransaction("p1", <<"R", "e", "n", "t">>, Num(900000),
                                          EXPENSE, "2"),
                        StoredTransaction("p2", <<"A", "b">>, Num(1500), EXPENSE, None)>>,
     rules |-> <<>>]

\* App as mounted: empty collections, the fetch under way
InitSync ==
    /\ transactions = <<>>
    /\ categories = <<>>
    /\ rules = <<>>
    /\ ruleSuggestion = <<>>
    /\ allImportRows = <<>>
    /\ importCandidates = EmptyCandidates
    /\ duplicatesToKeep = {}
    /\ unmappedCategories = <<>>
    /\ categoryMapping = <<>>
    /\ modal = {}
    /\ selectedIds = <<>>
    /\ pending = {}
    /\ nextId = 1
    /\ last = [op |-> "init"]
    /\ ReconInit
    /\ activeRule = <<>>
    /\ boot = "fetching"
    /\ loadTimer = FALSE
    /\ isLoadedRef = FALSE
    /\ watched = [t \in Types |-> <<>>]
    /\ saveTimeoutRef = [t \in Types |-> <<>>]
    /\ inflight = <<>>
    /\ db = [t \in Types |-> AsDocs(Persisted[t])]
    /\ carried = [t \in Types |-> <<>>]

\* the steps of App and of the server
SyncSteps ==
    \/ BootstrapLoaded
    \/ BootstrapFailed
    \/ LoadTimerFires
    \/ \E type \in Types : scheduleSave(type)
    \/ \E type \in Types : PostSync(type)
    \/ \E k \in 1..Len(inflight) : syncCollection(k)
    \/ \E k \in 1..Len(inflight) : \E b \in inflight[k].todo : CommitBatch(k, b)

NextSync ==
    \/ SyncSteps
    \/ Ready /\ \E id \in Ids(transactions) : DeleteTransaction(id)
    \/ Ready /\ handleUnifiedCategoryChange("p2", "2")
    \/ Ready /\ handleDeleteCategory("2")

SpecSync == InitSync /\ [][NextSync]_vars

\* the scheduling: every step of App and of the server that stays possible
\* is taken in the end; the user need not do anything
SpecSyncLive ==
    /\ SpecSync
    /\ WF_vars(BootstrapLoaded \/ BootstrapFailed)
    /\ WF_vars(LoadTimerFires)
    /\ \A type \in Types : WF_vars(scheduleSave(type)) /\ WF_vars(PostSync(type))
    /\ WF_vars(\E k \in 1..Len(inflight) : syncCollection(k))
    /\ WF_vars(\E k \in 1..Len(inflight) : \E b \in inflight[k].todo : CommitBatch(k, b))

-----------------------------------------------------------------------------
(* Synchronisation *)

\* the collection differs from the state last loaded or posted
Unsynced(type) == boot # "fetching" /\ Collection(type) # carried[type]

\* C26: whenever, after the bootstrap answer was applied, a collection
\* differs from the state last loaded or posted, a request carrying the
\* collection as it then is gets posted in the end.
C26_EventualSync == \A type \in Types : Unsynced(type) ~> ~Unsynced(type)

\* the requests of a collection that are in flight
InFlight(type) == {k \in 1..Len(inflight) : inflight[k].type = type}

\* C27: right after a sync request was answered that had no other request of
\* its collection in flight with it, the stored collection is the posted
\* items keyed by id: each with its posted content, and no other document.
C27_FullStatePut ==
    (last.op = "synced" /\ ~last.overlapped) =>
        db[last.type] = AsDocs(last.data)

\* such a request was answered after two batches, one document is gone from
\* the store and the rest is as posted
C27_TwoBatches ==
    /\ last.op = "synced"
    /\ ~last.overlapped
    /\ last.batches = 2
    /\ DOMAIN db[last.type] # Ids(Persisted[last.type])
    /\ db[last.type] = AsDocs(last.data)

\* C29: after a failed bootstrap the store keeps every document it held when
\* the page was opened, but for those the user has deleted (which can only be
\* default categories, the only items the client then holds).
C29_FailedBootKeepsPersisted ==
    boot = "failed" =>
        \A type \in Types : \A id \in Ids(Persisted[type]) :
            \/ id \in DOMAIN db[type]
            \/ /\ type = "categories"
               /\ id \in Ids(Catalog0)
               /\ id \notin Ids(categories)

\* C30: right after the last of several requests of a collection that were in
\* flight together was answered, the stored collection is the state posted by
\* the latest of them.
C30_OverlapConverges ==
    (last.op = "synced" /\ last.overlapped /\ InFlight(last.type) = {}) =>
        db[last.type] = AsDocs(carried[last.type])

-----------------------------------------------------------------------------
(* Auto-categorization against the user's own categorization *)

\* C28: right after the answer of an auto-categorization was applied, every
\* transaction that was sent with the request (it had no category then) and
\* had been given a category before the answer came keeps the category,
\* subcategory and type it had just before the answer.
C28_AiKeepsInterleaved ==
    last.op = "ai" =>
        \A i \in 1..Len(last.before) : \A j \in 1..Len(transactions) :
            (/\ last.before[i].id \in Range(last.sent)
             /\ last.before[i].categoryId # None
             /\ transactions[j].id = last.before[i].id) =>
                /\ transactions[j].categoryId = last.before[i].categoryId
                /\ transactions[j].subcategoryId = last.before[i].subcategoryId
                /\ transactions[j].type = last.before[i].type

====
